---- MODULE Spec2Model ----
(***************************************************************************)
(* A model of ScreenPilot's capture-to-insight pipeline:                   *)
(*   GPT4OCache                         (SmartAutocomplete.ts 276-512)     *)
(*   CostOptimizer                      (GPT4ONativeScreenshooter.ts 281-) *)
(*   EnhancedAutoScreenshotIntegration  (unnamed/part_004 37-432)          *)
(*                                                                         *)
(* The specifications share the variables:                                 *)
(*   SpecCache     the cache driven through its public methods             *)
(*   SpecCacheCore the same without import()                               *)
(*   SpecBudget    the cost optimizer driven through its public methods    *)
(*   SpecPipeline  frames flowing through processFrame, one action per     *)
(*                 run of code between two suspensions; the clock stands   *)
(*                 still there (expiry is exercised in SpecCache)          *)
(*                                                                         *)
(* Conventions.  A JavaScript Map is a sequence in insertion order (the    *)
(* order its iteration follows).  Date.now() is the variable `now`, read   *)
(* once per handler.  Money is counted in units of the configured          *)
(* costPerAnalysis grid (integers), and a percentage p of the budget is    *)
(* compared as  remaining * 100 >= p * dailyBudget  (exact arithmetic, no  *)
(* floating-point rounding).  Perceptual hashes are bit strings of length  *)
(* 8 instead of 64; MAX_CACHE_SIZE is scaled down from 1000 to the bound   *)
(* CacheCapacity.                                                          *)
(***************************************************************************)
EXTENDS Integers, Sequences, FiniteSets, TLC

VARIABLES
  cache,            \* GPT4OCache.cache: Map<hash, CachedResult>, insertion order
  perceptualIndex,  \* GPT4OCache.perceptualIndex: Map<fp, hash[]>, insertion order
  stats,            \* GPT4OCache.stats
  now,              \* Date.now()
  ops,              \* number of handler invocations so far (bounds the runs)
  lastOp,           \* the last handler invoked, its arguments and what it returned
  config,           \* CostOptimizer.config and EnhancedConfig
  currentUsage,     \* CostOptimizer.currentUsage
  usageHistory,     \* the store's 'usageHistory' list
  today,            \* new Date().toISOString().split('T')[0], as a day number
  resetTimers,      \* pending setTimeout timers of scheduleDailyReset
  midnights,        \* local midnights at which the reset timer has fired
  frames,           \* the processFrame invocations: where each one stands
  integrationRunning, \* EnhancedAutoScreenshotIntegration.isRunning
  isRunning,        \* GPT4OScreenshooter.isRunning
  starting,         \* start() calls past their isRunning check, awaiting fs.mkdir
  capturing,        \* captureLoop calls awaiting captureOptimizedFrame
  timers,           \* pending setTimeout(captureLoop) timers
  captureInterval,  \* whether this.captureInterval is the handle of a pending timer
  captureRate,      \* GPT4OScreenshooter.config.captureRate
  emitted,          \* how many events of each kind the pipeline has emitted
  streamBuffer,     \* GPT4OStreamHandler.buffer, as a sequence of text fragments
  actionDetected,   \* GPT4OStreamHandler.actionDetected
  errorDetected,    \* GPT4OStreamHandler.errorDetected
  startTime,        \* GPT4OStreamHandler.startTime
  runs,             \* the processStream invocations on the handler
  snapshot,         \* the text export() returned last, Null before the first
  engine,           \* the GuidanceEngine: recentInsights, contextHistory,
                    \* userPatterns and lastActionTime
  privacyManager,   \* PrivacyManager: state and the number of stored consents
  guidanceSystem    \* RealTimeGuidanceSystem: isActive and where start() is

cacheVars == <<cache, perceptualIndex, stats, now, ops, lastOp>>
budgetVars == <<config, currentUsage, usageHistory, today, resetTimers, midnights>>
shooterVars == <<isRunning, starting, capturing, timers, captureInterval, captureRate>>
pipeVars == <<frames, integrationRunning, shooterVars, emitted>>
streamVars == <<streamBuffer, actionDetected, errorDetected, startTime, runs>>
vars == <<cacheVars, budgetVars, pipeVars, streamVars, snapshot, engine,
         privacyManager, guidanceSystem>>

-----------------------------------------------------------------------------
(* Bounds of the model *)

CacheCapacity == 2
MaxOps == 4
MaxRecords == 11
MaxFrames == 2
MaxLoops == 2
FpBits == 8

(* Program constants *)

MAX_CACHE_SIZE == CacheCapacity
SIMILARITY_THRESHOLD == 5
TTL_MS == 3600000
COST_PER_ANALYSIS == 1
Infinity == 1000000000
THRESHOLD_MEDIUM == 50
THRESHOLD_LOW == 80
HISTORY_DAYS == 90

-----------------------------------------------------------------------------
(* Inputs *)

Hashes == {1, 2, 3}

FpA == <<0,0,0,0,0,0,0,0>>
FpB == <<0,0,0,0,0,0,0,1>>
FpC == <<0,0,1,1,1,1,1,1>>
Fingerprints == {FpA, FpB, FpC}

Analyses == {"a1", "a2"}

\* what set() is called with: every hash under every fingerprint; hash 1 is
\* also analysed with a second result
StoreInputs ==
  {x \in Hashes \X Fingerprints \X Analyses : x[3] = "a1" \/ x[1] = 1}

ClockValues == {0, 1, TTL_MS, TTL_MS + 1}

Null == [null |-> TRUE]

-----------------------------------------------------------------------------
(* Map primitives *)

CacheHas(c, h) == \E i \in 1..Len(c) : c[i].hash = h

CachePos(c, h) == CHOOSE i \in 1..Len(c) : c[i].hash = h

CacheGet(c, h) == IF CacheHas(c, h) THEN c[CachePos(c, h)] ELSE Null

CachePut(c, e) ==
  IF CacheHas(c, e.hash) THEN [c EXCEPT ![CachePos(c, e.hash)] = e]
  ELSE Append(c, e)

CacheDelete(c, h) == SelectSeq(c, LAMBDA e : e.hash # h)

IndexHas(idx, fp) == \E i \in 1..Len(idx) : idx[i].fp = fp

IndexPos(idx, fp) == CHOOSE i \in 1..Len(idx) : idx[i].fp = fp

IndexGet(idx, fp) == IF IndexHas(idx, fp) THEN idx[IndexPos(idx, fp)].hashes ELSE <<>>

IndexPut(idx, fp, hs) ==
  IF IndexHas(idx, fp) THEN [idx EXCEPT ![IndexPos(idx, fp)].hashes = hs]
  ELSE Append(idx, [fp |-> fp, hashes |-> hs])

IndexDelete(idx, fp) == SelectSeq(idx, LAMBDA b : b.fp # fp)

SeqToSet(s) == {s[i] : i \in 1..Len(s)}

-----------------------------------------------------------------------------
(* GPT4OCache *)

hammingDistance(hash1, hash2) ==
  IF Len(hash1) # Len(hash2) THEN Infinity
  ELSE Cardinality({i \in 1..Len(hash1) : hash1[i] # hash2[i]})

Expired(e, t) == t - e.timestamp > TTL_MS

\* results.reduce((a, b) => a.lastAccessed > b.lastAccessed ? a : b)
RECURSIVE ReduceMostRecent(_, _, _)
ReduceMostRecent(results, i, a) ==
  IF i > Len(results) THEN a
  ELSE ReduceMostRecent(results, i + 1,
         IF a.lastAccessed > results[i].lastAccessed THEN a ELSE results[i])

\* exactHashes.map(hash => this.cache.get(hash)).filter(Boolean)
BucketResults(c, hs) ==
  LET live == SelectSeq(hs, LAMBDA h : CacheHas(c, h))
  IN  [i \in 1..Len(live) |-> CacheGet(c, live[i])]

BucketBelowThreshold(distance, bestDistance) ==
  distance < SIMILARITY_THRESHOLD /\ distance < bestDistance

BucketWithinThreshold(distance, bestDistance) == distance <= SIMILARITY_THRESHOLD

BucketAccepted(distance, bestDistance) ==
  distance <= SIMILARITY_THRESHOLD /\ distance < bestDistance

RECURSIVE findSimilarFrom(_, _, _, _, _, _)
findSimilarFrom(c, idx, targetHash, i, bestMatch, bestDistance) ==
  IF i > Len(idx) THEN bestMatch
  ELSE LET distance == hammingDistance(targetHash, idx[i].fp)
           results  == BucketResults(c, idx[i].hashes)
       IN  IF BucketAccepted(distance, bestDistance) /\ Len(results) > 0
           THEN findSimilarFrom(c, idx, targetHash, i + 1,
                                ReduceMostRecent(results, 2, results[1]), distance)
           ELSE findSimilarFrom(c, idx, targetHash, i + 1, bestMatch, bestDistance)

findSimilar(c, idx, targetHash) == findSimilarFrom(c, idx, targetHash, 1, Null, Infinity)

HitAccessCountKept(n) == n

HitAccessCount(n) == n + 1

\* recordHit mutates the entry object held by the map
recordHit(c, st, result, t) ==
  [cache |-> CachePut(c, [result EXCEPT !.accessCount = HitAccessCount(@),
                                        !.lastAccessed = t]),
   stats |-> [st EXCEPT !.hits = @ + 1, !.totalSaved = @ + 1,
                        !.costSaved = @ + result.cost]]

\* get(): the entry returned is the map's own object, read after recordHit
get(c, idx, st, exactHash, perceptualHash, t) ==
  LET exactResult == CacheGet(c, exactHash)
  IN  IF exactResult # Null
      THEN LET r == recordHit(c, st, exactResult, t)
           IN  [cache |-> r.cache, stats |-> r.stats, via |-> "exact",
                ret |-> CacheGet(r.cache, exactHash)]
      ELSE LET similarResult == findSimilar(c, idx, perceptualHash)
           IN  IF similarResult # Null
               THEN LET r == recordHit(c, st, similarResult, t)
                    IN  [cache |-> r.cache, stats |-> r.stats, via |-> "similar",
                         ret |-> CacheGet(r.cache, similarResult.hash)]
               ELSE [cache |-> c, stats |-> [st EXCEPT !.misses = @ + 1],
                     via |-> "miss", ret |-> Null]

removeEntry(c, idx, key) ==
  IF ~CacheHas(c, key) THEN [cache |-> c, index |-> idx, evicted |-> <<>>]
  ELSE LET entry    == CacheGet(c, key)
           hashes   == IndexGet(idx, entry.perceptualHash)
           filtered == SelectSeq(hashes, LAMBDA h : h # key)
       IN  [cache   |-> CacheDelete(c, key),
            index   |-> IF ~IndexHas(idx, entry.perceptualHash) THEN idx
                        ELSE IF Len(filtered) > 0
                             THEN IndexPut(idx, entry.perceptualHash, filtered)
                             ELSE IndexDelete(idx, entry.perceptualHash),
            evicted |-> <<key>>]

\* the key evictLRU removes: the first expired entry met in iteration order,
\* else the first entry with the smallest lastAccessed
RECURSIVE evictLRUKey(_, _, _, _, _)
evictLRUKey(c, t, i, lruKey, lruTime) ==
  IF i > Len(c) THEN lruKey
  ELSE IF Expired(c[i], t) THEN c[i].hash
       ELSE IF c[i].lastAccessed < lruTime
            THEN evictLRUKey(c, t, i + 1, c[i].hash, c[i].lastAccessed)
            ELSE evictLRUKey(c, t, i + 1, lruKey, lruTime)

\* evictLRU removing every expired entry at once, or the least recently used
\* one when nothing is expired
evictLRUAllExpired(c, idx, t) ==
  LET expired == SelectSeq(c, LAMBDA e : Expired(e, t))
      key     == evictLRUKey(c, t, 1, 0, Infinity)
  IN  IF Len(expired) > 0
      THEN [cache   |-> SelectSeq(c, LAMBDA e : ~Expired(e, t)),
            index   |-> idx,
            evicted |-> [i \in 1..Len(expired) |-> expired[i].hash]]
      ELSE IF key = 0 THEN [cache |-> c, index |-> idx, evicted |-> <<>>]
           ELSE removeEntry(c, idx, key)

evictLRU(c, idx, t) ==
  LET key == evictLRUKey(c, t, 1, 0, Infinity)
  IN  IF key = 0 THEN [cache |-> c, index |-> idx, evicted |-> <<>>]
      ELSE removeEntry(c, idx, key)

NeedsEvictionWhenOver(c) == Len(c) > MAX_CACHE_SIZE

NeedsEviction(c) == Len(c) >= MAX_CACHE_SIZE

NewEntry(hash, perceptualHash, analysis, cost, t) ==
  [hash |-> hash, perceptualHash |-> perceptualHash, analysis |-> analysis,
   timestamp |-> t, accessCount |-> 1, lastAccessed |-> t, cost |-> cost]

set(c, idx, st, hash, perceptualHash, analysis, cost, t) ==
  LET ev == IF NeedsEviction(c) THEN evictLRU(c, idx, t)
            ELSE [cache |-> c, index |-> idx, evicted |-> <<>>]
      c2 == CachePut(ev.cache, NewEntry(hash, perceptualHash, analysis, cost, t))
      i2 == IndexPut(ev.index, perceptualHash,
                     Append(IndexGet(ev.index, perceptualHash), hash))
  IN  [cache |-> c2, index |-> i2, stats |-> [st EXCEPT !.cacheSize = Len(c2)],
       evicted |-> ev.evicted]

\* pruneExpired(): for (const [key, value] of this.cache) if expired removeEntry(key)
RECURSIVE pruneFrom(_, _, _, _, _)
pruneFrom(keys, i, t, acc, orig) ==
  IF i > Len(keys) THEN acc
  ELSE LET e == CacheGet(orig, keys[i])
       IN  IF Expired(e, t)
           THEN LET r == removeEntry(acc.cache, acc.index, keys[i])
                IN  pruneFrom(keys, i + 1, t,
                              [cache |-> r.cache, index |-> r.index,
                               pruned |-> acc.pruned + 1,
                               evicted |-> acc.evicted \o r.evicted], orig)
           ELSE pruneFrom(keys, i + 1, t, acc, orig)

pruneExpired(c, idx, t) ==
  pruneFrom([i \in 1..Len(c) |-> c[i].hash], 1, t,
            [cache |-> c, index |-> idx, pruned |-> 0, evicted |-> <<>>], c)

\* import(data): JSON.parse, then the three assignments, then pruneExpired, all
\* inside try/catch.  data.kind says how the text parses:
\*   "ok"          a snapshot export() wrote
\*   "unparseable" JSON.parse throws: nothing is assigned
\*   "noCache"     parsed.cache is undefined: new Map(undefined) is the empty Map
\*   "noIndex"     parsed.perceptualIndex is undefined: the index becomes empty
\*   "badIndex"    parsed.perceptualIndex is not iterable: new Map throws after
\*                 this.cache was assigned
import(c, idx, st, data, t) ==
  IF data.kind = "unparseable"
  THEN [cache |-> c, index |-> idx, stats |-> st]
  ELSE LET c1 == IF data.kind = "noCache" THEN <<>> ELSE data.cache
       IN  IF data.kind = "badIndex"
           THEN [cache |-> c1, index |-> idx, stats |-> st]
           ELSE LET i1 == IF data.kind = "noIndex" THEN <<>> ELSE data.perceptualIndex
                    r  == pruneExpired(c1, i1, t)
                IN  [cache |-> r.cache, index |-> r.index, stats |-> data.stats]

InitStats == [hits |-> 0, misses |-> 0, totalSaved |-> 0, costSaved |-> 0, cacheSize |-> 0]

\* export() of a cache that stored hash 1 under FpA at time 0 and hash 2 under
\* FpC at time 1
Snapshot ==
  [cache |-> <<NewEntry(1, FpA, "a1", COST_PER_ANALYSIS, 0),
               NewEntry(2, FpC, "a1", COST_PER_ANALYSIS, 1)>>,
   perceptualIndex |-> <<[fp |-> FpA, hashes |-> <<1>>], [fp |-> FpC, hashes |-> <<2>>]>>,
   stats |-> [InitStats EXCEPT !.cacheSize = 2]]

ImportKinds == {"ok", "unparseable", "noCache", "noIndex", "badIndex"}

ImportInputs ==
  {[kind |-> k, cache |-> Snapshot.cache, perceptualIndex |-> Snapshot.perceptualIndex,
    stats |-> Snapshot.stats] : k \in ImportKinds}

\* Array.from(map.entries()): the [key, value] pairs in insertion order
cacheEntries(c) == [i \in 1..Len(c) |-> <<c[i].hash, c[i]>>]

indexEntries(idx) == [i \in 1..Len(idx) |-> <<idx[i].fp, idx[i].hashes>>]

\* export(): the text of {cache, perceptualIndex, stats}, the two maps as
\* arrays of pairs
exportWithoutIndex(c, idx, st) ==
  [cache |-> cacheEntries(c), perceptualIndex |-> <<>>, stats |-> st]

export(c, idx, st) ==
  [cache |-> cacheEntries(c), perceptualIndex |-> indexEntries(idx), stats |-> st]

\* new Map(pairs): each pair sets its key, a later pair of a key replaces the
\* value in place; the key of an exported pair is the hash of its entry
RECURSIVE cacheFromEntries(_, _, _)
cacheFromEntries(pairs, i, c) ==
  IF i > Len(pairs) THEN c
  ELSE cacheFromEntries(pairs, i + 1, CachePut(c, pairs[i][2]))

RECURSIVE indexFromEntries(_, _, _)
indexFromEntries(pairs, i, idx) ==
  IF i > Len(pairs) THEN idx
  ELSE indexFromEntries(pairs, i + 1, IndexPut(idx, pairs[i][1], pairs[i][2]))

\* JSON.parse of a text export() wrote, and the maps import() builds from it
parseExported(text) ==
  [kind |-> "ok", cache |-> cacheFromEntries(text.cache, 1, <<>>),
   perceptualIndex |-> indexFromEntries(text.perceptualIndex, 1, <<>>),
   stats |-> text.stats]

-----------------------------------------------------------------------------
(* CostOptimizer *)

Priorities == {"high", "medium", "low"}

\* dailyBudget and costPerAnalysis, in units of money
UnitCostConfig == [dailyBudget |-> 10, costPerAnalysis |-> 1, enableCaching |-> TRUE]

BudgetConfigs == {UnitCostConfig, [UnitCostConfig EXCEPT !.costPerAnalysis = 3]}

FreshUsage(date) ==
  [date |-> date, totalCost |-> 0, analysisCount |-> 0, cachedCount |-> 0,
   priorityBreakdown |-> [high |-> 0, medium |-> 0, low |-> 0]]

\* getBudgetPercentage() is Math.max(0, remaining / dailyBudget * 100); these
\* compare it with p for a positive dailyBudget
BudgetPercentageTimesBudget(u, cfg) ==
  IF cfg.dailyBudget - u.totalCost > 0 THEN (cfg.dailyBudget - u.totalCost) * 100 ELSE 0

PercentageAbove(u, cfg, p) == BudgetPercentageTimesBudget(u, cfg) > p * cfg.dailyBudget

PercentageAtLeast(u, cfg, p) == BudgetPercentageTimesBudget(u, cfg) >= p * cfg.dailyBudget

PercentageAtMost(u, cfg, p) == BudgetPercentageTimesBudget(u, cfg) <= p * cfg.dailyBudget

UnderBudget(u, cfg) == u.totalCost < cfg.dailyBudget

shouldProcess(u, cfg, priority) ==
  IF UnderBudget(u, cfg)
  THEN [ret |-> CASE priority = "high"   -> TRUE
                  [] priority = "medium" -> PercentageAtLeast(u, cfg, THRESHOLD_MEDIUM)
                  [] priority = "low"    -> PercentageAtLeast(u, cfg, THRESHOLD_LOW),
        events |-> {}]
  ELSE IF priority = "high"
       THEN [ret |-> TRUE, events |-> {"budgetWarning"}]
       ELSE [ret |-> FALSE, events |-> {}]

\* saveUsage(): replace the record of currentUsage.date or push it, keep 90
saveUsage(hist, u) ==
  LET saved == IF \E i \in 1..Len(hist) : hist[i].date = u.date
               THEN [i \in 1..Len(hist) |->
                       IF i = (CHOOSE j \in 1..Len(hist) : hist[j].date = u.date)
                       THEN u ELSE hist[i]]
               ELSE Append(hist, u)
  IN  IF Len(saved) > HISTORY_DAYS
      THEN SubSeq(saved, Len(saved) - HISTORY_DAYS + 1, Len(saved))
      ELSE saved

checkBudgetAlerts(u, cfg) ==
  IF PercentageAtMost(u, cfg, 10) /\ u.analysisCount % 10 = 0 THEN {"budgetCritical"}
  ELSE IF PercentageAtMost(u, cfg, 25) /\ u.analysisCount % 20 = 0 THEN {"budgetLow"}
  ELSE {}

CountUsageCostOnly(u, cfg, cached) ==
  IF ~cached THEN [u EXCEPT !.totalCost = @ + cfg.costPerAnalysis]
  ELSE [u EXCEPT !.cachedCount = @ + 1]

CountUsageAsCached(u, cfg, cached) == [u EXCEPT !.cachedCount = @ + 1]

CountUsage(u, cfg, cached) ==
  IF ~cached
  THEN [u EXCEPT !.totalCost = @ + cfg.costPerAnalysis, !.analysisCount = @ + 1]
  ELSE [u EXCEPT !.cachedCount = @ + 1]

recordAnalysis(u, cfg, hist, priority, cached) ==
  LET u2 == [CountUsage(u, cfg, cached) EXCEPT !.priorityBreakdown[priority] = @ + 1]
  IN  [usage |-> u2, history |-> saveUsage(hist, u2),
       events |-> {"costUpdate"} \cup checkBudgetAlerts(u2, cfg)]

\* resolution is the width (= the height); diffThreshold is in tenths
getDefaultQualitySettings ==
  [imageQuality |-> 85, resolution |-> 1024, captureRate |-> 5, diffThreshold |-> 5]

\* the two lowest tiers exchanged
QualityTiersExchanged(u, cfg) ==
  IF BudgetPercentageTimesBudget(u, cfg) > 70 * cfg.dailyBudget
  THEN [imageQuality |-> 85, resolution |-> 1024, captureRate |-> 5, diffThreshold |-> 5]
  ELSE IF BudgetPercentageTimesBudget(u, cfg) > 40 * cfg.dailyBudget
  THEN [imageQuality |-> 75, resolution |-> 800, captureRate |-> 3, diffThreshold |-> 10]
  ELSE IF BudgetPercentageTimesBudget(u, cfg) > 20 * cfg.dailyBudget
  THEN [imageQuality |-> 50, resolution |-> 512, captureRate |-> 1, diffThreshold |-> 50]
  ELSE [imageQuality |-> 65, resolution |-> 640, captureRate |-> 2, diffThreshold |-> 20]

QualityTiers(u, cfg) ==
  IF BudgetPercentageTimesBudget(u, cfg) > 70 * cfg.dailyBudget
  THEN [imageQuality |-> 85, resolution |-> 1024, captureRate |-> 5, diffThreshold |-> 5]
  ELSE IF BudgetPercentageTimesBudget(u, cfg) > 40 * cfg.dailyBudget
  THEN [imageQuality |-> 75, resolution |-> 800, captureRate |-> 3, diffThreshold |-> 10]
  ELSE IF BudgetPercentageTimesBudget(u, cfg) > 20 * cfg.dailyBudget
  THEN [imageQuality |-> 65, resolution |-> 640, captureRate |-> 2, diffThreshold |-> 20]
  ELSE [imageQuality |-> 50, resolution |-> 512, captureRate |-> 1, diffThreshold |-> 50]

getAdaptiveQualitySettings(u, cfg) ==
  IF ~cfg.adaptiveQuality THEN getDefaultQualitySettings ELSE QualityTiers(u, cfg)

-----------------------------------------------------------------------------
(* GuidanceEngine.  A text is a sequence of words; a ScreenInsight is the    *)
(* analysis fields the engine reads                                         *)

STUCK_THRESHOLD_MS == 30000
MAX_HISTORY_SIZE == 100
PATTERN_THRESHOLD == 3

Applications == {"Xcode"}

criticalKeywords ==
  {"save", "delete", "remove", "destroy", "drop", "truncate",
   "payment", "checkout", "confirm", "submit", "deploy", "publish"}

lowerWord(w) ==
  CASE w = "Save" -> "save"
    [] w = "Editor" -> "editor"
    [] w = "Open" -> "open"
    [] w = "Press" -> "press"
    [] w = "Cmd+S" -> "cmd+s"
    [] OTHER -> w

toLowerCase(text) == [i \in 1..Len(text) |-> lowerWord(text[i])]

\* String.prototype.includes for the parts the engine looks for
wordIncludes(w, part) == w = part \/ (w = "Cmd+S" /\ part = "Cmd")

textIncludes(text, part) == \E i \in 1..Len(text) : wordIncludes(text[i], part)

\* array.slice(-n)
lastOf(s, n) == IF Len(s) > n THEN SubSeq(s, Len(s) - n + 1, Len(s)) ELSE s

\* the engine as constructed at time t
NewEngine(t) ==
  [recentInsights |-> <<>>, contextHistory |-> <<>>,
   userPatterns |-> [a \in Applications |-> Null], lastActionTime |-> t]

detectIfStuck(eng, insight, timeSinceLastAction) ==
  IF timeSinceLastAction > STUCK_THRESHOLD_MS THEN TRUE
  ELSE LET recent == lastOf(eng.recentInsights, 5)
       IN  /\ Cardinality({recent[i].summary : i \in 1..Len(recent)}) = 1
           /\ Len(recent) >= 5

detectRepetitiveBehavior(eng, insight) ==
  LET recent == lastOf(eng.recentInsights, 10)
      positions == UNION {{<<i, j>> : j \in 1..Len(recent[i].suggestions)} :
                            i \in 1..Len(recent)}
      occurrences(action) ==
        Cardinality({x \in positions : recent[x[1]].suggestions[x[2]] = action})
  IN  \E i \in 1..Len(recent) : \E j \in 1..Len(recent[i].suggestions) :
        occurrences(recent[i].suggestions[j]) >= PATTERN_THRESHOLD

detectCriticalWorkflow(insight) ==
  \E keyword \in criticalKeywords : textIncludes(toLowerCase(insight.summary), keyword)

\* averageTimeOnScreen is kept as the fraction num/den: the comparison is
\* currentTime > averageTimeOnScreen * 1.5
detectInefficiency(eng, insight, t) ==
  LET pattern == eng.userPatterns[insight.application]
  IN  IF pattern = Null THEN FALSE
      ELSE 2 * (t - eng.lastActionTime) * pattern.den > 3 * pattern.num

hasUnusedFeatures(eng, insight) ==
  /\ Len(insight.shortcuts) > 0
  /\ ~ \E h \in 1..Len(eng.contextHistory) :
         \E k \in 1..Len(eng.contextHistory[h].suggestions) :
           \/ textIncludes(eng.contextHistory[h].suggestions[k], "Cmd")
           \/ textIncludes(eng.contextHistory[h].suggestions[k], "Ctrl")

buildContext(eng, insight, t) ==
  LET timeSinceLastAction == t - eng.lastActionTime
      isStuck == detectIfStuck(eng, insight, timeSinceLastAction)
  IN  [application |-> insight.application, screenState |-> insight.summary,
       isStuck |-> isStuck,
       stuckDuration |-> IF isStuck THEN timeSinceLastAction ELSE 0,
       hasErrors |-> Len(insight.errors) > 0,
       isRepetitive |-> detectRepetitiveBehavior(eng, insight),
       timestamp |-> t]

\* the priority without the unused-features test
calculatePriorityTwoMedium(eng, insight, context, t) ==
  IF context.hasErrors THEN "high"
  ELSE IF context.isStuck /\ context.stuckDuration > STUCK_THRESHOLD_MS THEN "high"
  ELSE IF detectCriticalWorkflow(insight) THEN "high"
  ELSE IF context.isRepetitive THEN "medium"
  ELSE IF detectInefficiency(eng, insight, t) THEN "medium"
  ELSE "low"

calculatePriority(eng, insight, context, t) ==
  IF context.hasErrors THEN "high"
  ELSE IF context.isStuck /\ context.stuckDuration > STUCK_THRESHOLD_MS THEN "high"
  ELSE IF detectCriticalWorkflow(insight) THEN "high"
  ELSE IF context.isRepetitive THEN "medium"
  ELSE IF detectInefficiency(eng, insight, t) THEN "medium"
  ELSE IF hasUnusedFeatures(eng, insight) THEN "medium"
  ELSE "low"

\* the stuck test ahead of the error test
determineCategoryStuckFirst(eng, insight, context) ==
  IF context.isStuck THEN "navigation-help"
  ELSE IF context.hasErrors THEN "error-help"
  ELSE IF context.isRepetitive THEN "efficiency-tip"
  ELSE IF eng.userPatterns[context.application] # Null /\ hasUnusedFeatures(eng, insight)
  THEN "feature-discovery"
  ELSE "workflow-optimization"

determineCategory(eng, insight, context) ==
  IF context.hasErrors THEN "error-help"
  ELSE IF context.isStuck THEN "navigation-help"
  ELSE IF context.isRepetitive THEN "efficiency-tip"
  ELSE IF eng.userPatterns[context.application] # Null /\ hasUnusedFeatures(eng, insight)
  THEN "feature-discovery"
  ELSE "workflow-optimization"

updateHistory(eng, context, insight) ==
  LET pushed == Append(eng.contextHistory,
                       [timestamp |-> context.timestamp,
                        application |-> context.application,
                        screenState |-> context.screenState,
                        hadErrors |-> context.hasErrors,
                        suggestions |-> insight.suggestions])
  IN  IF Len(pushed) > MAX_HISTORY_SIZE THEN Tail(pushed) ELSE pushed

\* updatePatterns(): averageTimeOnScreen becomes 0.8 of itself plus 0.2 of the
\* time since the last action (commonActions and errorRate are read nowhere)
updatePatterns(eng, insight, t) ==
  LET old == eng.userPatterns[insight.application]
      pattern == IF old = Null THEN [num |-> 0, den |-> 1] ELSE old
  IN  [eng.userPatterns EXCEPT ![insight.application] =
         [num |-> 4 * pattern.num + (t - eng.lastActionTime) * pattern.den,
          den |-> 5 * pattern.den]]

\* Array.prototype.sort((a, b) => b.confidence - a.confidence): stable, by
\* falling confidence (in tenths)
RECURSIVE sortByConfidence(_, _, _)
sortByConfidence(suggestions, i, sorted) ==
  IF i > Len(suggestions) THEN sorted
  ELSE LET s     == suggestions[i]
           ahead == Cardinality({k \in 1..Len(sorted) : sorted[k].confidence >= s.confidence})
       IN  sortByConfidence(suggestions, i + 1,
             SubSeq(sorted, 1, ahead) \o <<s>> \o SubSeq(sorted, ahead + 1, Len(sorted)))

buildSuggestions(insight, context, category) ==
  LET generated == [i \in 1..Len(insight.suggestions) |->
                      [text |-> insight.suggestions[i],
                       shortcut |-> IF i <= Len(insight.shortcuts)
                                    THEN insight.shortcuts[i] ELSE Null,
                       confidence |-> insight.confidence]]
      all == CASE category = "error-help" ->
                    <<[text |-> <<"Fix", "the", "error", "to", "continue">>,
                       shortcut |-> Null, confidence |-> 10]>> \o generated
               [] category = "navigation-help" /\ context.isStuck ->
                    Append(generated,
                           [text |-> <<"Try", "using", "the", "search", "function">>,
                            shortcut |-> "Cmd+F", confidence |-> 8])
               [] category = "efficiency-tip" ->
                    Append(generated,
                           [text |-> <<"Consider", "using", "keyboard", "shortcuts",
                                       "for", "faster", "navigation">>,
                            shortcut |-> Null, confidence |-> 7])
               [] OTHER -> generated
      sorted == sortByConfidence(all, 1, <<>>)
  IN  SubSeq(sorted, 1, IF Len(sorted) < 3 THEN Len(sorted) ELSE 3)

\* process(insight) at time t: the engine afterwards and the Guidance returned
process(eng, insight, t) ==
  LET pushed   == Append(eng.recentInsights, insight)
      eng1     == [eng EXCEPT !.recentInsights =
                     IF Len(pushed) > 10 THEN Tail(pushed) ELSE pushed]
      context  == buildContext(eng1, insight, t)
      priority == calculatePriority(eng1, insight, context, t)
      category == determineCategory(eng1, insight, context)
  IN  [engine |-> [eng1 EXCEPT
                     !.contextHistory = updateHistory(eng1, context, insight),
                     !.userPatterns = updatePatterns(eng1, insight, t),
                     !.lastActionTime = IF Len(insight.suggestions) > 0 THEN t ELSE @],
       guidance |-> [priority |-> priority, category |-> category,
                     suggestions |-> buildSuggestions(insight, context, category),
                     context |-> context]]

-----------------------------------------------------------------------------
(* Initial states: the objects as constructed *)

InitCacheVars ==
  /\ cache = <<>>
  /\ perceptualIndex = <<>>
  /\ stats = InitStats
  /\ now = 0
  /\ ops = 0
  /\ lastOp = [op |-> "new"]
  /\ snapshot = Null

InitBudgetVars(configs) ==
  /\ config \in configs
  /\ today = 0
  /\ currentUsage = FreshUsage(0)
  /\ usageHistory = <<>>
  /\ resetTimers = 1
  /\ midnights = 0

\* the processStream invocations that may overlap on the one stream handler
Runs == {1, 2}

IdleRun ==
  [pc |-> "idle", stream |-> <<>>, length |-> 0, instantAction |-> 0,
   instantError |-> 0, partialUpdate |-> 0, shortcutsEmitted |-> {},
   received |-> <<>>]

InitStreamVars ==
  /\ streamBuffer = <<>>
  /\ actionDetected = FALSE
  /\ errorDetected = FALSE
  /\ startTime = 0
  /\ runs = [r \in Runs |-> IdleRun]

InitEngine == engine = NewEngine(0)

\* a PrivacyManager after its constructor: the state, and the number of
\* consents its store holds that cleanOldConsents() kept
NewPrivacyManager(consents) == [state |-> "idle", consentHistory |-> consents]

NewGuidanceSystem == [isActive |-> FALSE, pc |-> "idle"]

InitPrivacyVars ==
  /\ privacyManager = NewPrivacyManager(0)
  /\ guidanceSystem = NewGuidanceSystem

InitPipeVars ==
  /\ frames = [f \in 1..MaxFrames |-> [pc |-> "none"]]
  /\ integrationRunning = FALSE
  /\ isRunning = FALSE
  /\ starting = 0
  /\ capturing = 0
  /\ timers = 0
  /\ captureInterval = FALSE
  /\ captureRate = 5
  /\ emitted = [cached |-> 0, skipped |-> 0, error |-> 0, insight |-> 0]

-----------------------------------------------------------------------------
(* SpecBudget: the cost optimizer driven through its public methods *)

InitBudget == InitCacheVars /\ InitBudgetVars(BudgetConfigs) /\ InitPipeVars /\ InitStreamVars /\ InitEngine /\ InitPrivacyVars

ShouldProcess(priority) ==
  /\ LET r == shouldProcess(currentUsage, config, priority)
     IN  lastOp' = [op |-> "shouldProcess", priority |-> priority, ret |-> r.ret,
                    events |-> r.events]
  /\ UNCHANGED <<privacyManager, guidanceSystem, engine, snapshot, streamVars, cache, perceptualIndex, stats, now, ops, budgetVars, pipeVars>>

RecordAnalysis(priority, cached) ==
  /\ currentUsage.analysisCount + currentUsage.cachedCount < MaxRecords
  /\ LET r == recordAnalysis(currentUsage, config, usageHistory, priority, cached)
     IN  /\ currentUsage' = r.usage
         /\ usageHistory' = r.history
         /\ lastOp' = [op |-> "recordAnalysis", priority |-> priority,
                       cached |-> cached, events |-> r.events]
  /\ UNCHANGED <<privacyManager, guidanceSystem, engine, snapshot, streamVars, cache, perceptualIndex, stats, now, ops, config, today, resetTimers, midnights, pipeVars>>

NextBudget ==
  \/ \E p \in Priorities : ShouldProcess(p)
  \/ \E p \in Priorities, c \in BOOLEAN : RecordAnalysis(p, c)

SpecBudget == InitBudget /\ [][NextBudget]_vars

-----------------------------------------------------------------------------
(* SpecCache: the cache driven through its public methods *)

InitCache == InitCacheVars /\ InitBudgetVars({UnitCostConfig}) /\ InitPipeVars /\ InitStreamVars /\ InitEngine /\ InitPrivacyVars

Store(h, fp, a) ==
  /\ ops < MaxOps
  /\ LET r == set(cache, perceptualIndex, stats, h, fp, a, COST_PER_ANALYSIS, now)
     IN  /\ cache' = r.cache
         /\ perceptualIndex' = r.index
         /\ stats' = r.stats
         /\ lastOp' = [op |-> "set", hash |-> h, fp |-> fp, analysis |-> a,
                       wasPresent |-> CacheHas(cache, h), evicted |-> r.evicted,
                       expired |-> {cache[i].hash : i \in {j \in 1..Len(cache) :
                                                             Expired(cache[j], now)}}]
  /\ ops' = ops + 1
  /\ UNCHANGED <<privacyManager, guidanceSystem, engine, snapshot, streamVars, now, budgetVars, pipeVars>>

Lookup(h, fp) ==
  /\ ops < MaxOps
  /\ LET r == get(cache, perceptualIndex, stats, h, fp, now)
     IN  /\ cache' = r.cache
         /\ stats' = r.stats
         /\ lastOp' = [op |-> "get", hash |-> h, fp |-> fp, via |-> r.via, ret |-> r.ret]
  /\ ops' = ops + 1
  /\ UNCHANGED <<privacyManager, guidanceSystem, engine, snapshot, streamVars, perceptualIndex, now, budgetVars, pipeVars>>

PruneExpired ==
  /\ ops < MaxOps
  /\ LET r == pruneExpired(cache, perceptualIndex, now)
     IN  /\ cache' = r.cache
         /\ perceptualIndex' = r.index
         /\ lastOp' = [op |-> "pruneExpired", pruned |-> r.pruned, evicted |-> r.evicted]
  /\ ops' = ops + 1
  /\ UNCHANGED <<privacyManager, guidanceSystem, engine, snapshot, streamVars, stats, now, budgetVars, pipeVars>>

Clear ==
  /\ ops < MaxOps
  /\ cache' = <<>>
  /\ perceptualIndex' = <<>>
  /\ stats' = [stats EXCEPT !.cacheSize = 0]
  /\ lastOp' = [op |-> "clear"]
  /\ ops' = ops + 1
  /\ UNCHANGED <<privacyManager, guidanceSystem, engine, snapshot, streamVars, now, budgetVars, pipeVars>>

Import(data) ==
  /\ ops < MaxOps
  /\ LET r == import(cache, perceptualIndex, stats, data, now)
     IN  /\ cache' = r.cache
         /\ perceptualIndex' = r.index
         /\ stats' = r.stats
  /\ lastOp' = [op |-> "import", kind |-> data.kind]
  /\ ops' = ops + 1
  /\ UNCHANGED <<privacyManager, guidanceSystem, engine, snapshot, streamVars, now, budgetVars, pipeVars>>

AdvanceClock(t) ==
  /\ ops < MaxOps
  /\ t > now
  /\ now' = t
  /\ lastOp' = [op |-> "clock"]
  /\ ops' = ops + 1
  /\ UNCHANGED <<privacyManager, guidanceSystem, engine, snapshot, streamVars, cache, perceptualIndex, stats, budgetVars, pipeVars>>

\* the cache without import(): set, get, pruneExpired, clear and the clock
NextCacheCore ==
  \/ \E x \in StoreInputs : Store(x[1], x[2], x[3])
  \/ \E h \in Hashes, fp \in Fingerprints : Lookup(h, fp)
  \/ PruneExpired
  \/ Clear
  \/ \E t \in ClockValues : AdvanceClock(t)

SpecCacheCore == InitCache /\ [][NextCacheCore]_vars

NextCache ==
  \/ NextCacheCore
  \/ \E data \in ImportInputs : Import(data)

SpecCache == InitCache /\ [][NextCache]_vars

-----------------------------------------------------------------------------
(* SpecPipeline: EnhancedAutoScreenshotIntegration and its screenshooter.   *)
(* processFrame is an async function: it runs without interruption from one *)
(* suspension to the next.  Awaiting determinePriority, shouldProcess and   *)
(* cache.get only yields to the microtask queue (their promises are already *)
(* resolved), so no timer, capture or response handler runs in between; the *)
(* suspensions where other handlers interleave are the model call and       *)
(* autocomplete.predict.  One action per such run of code.                  *)

\* the frames captured: content hash of the buffer, and the perceptual hash
\* calculatePerceptualHash derives from that buffer
Buffers == {1, 2}

PerceptualOf(buffer) == IF buffer = 1 THEN FpA ELSE FpB

\* the fields of an OptimizedFrame that determinePriority reads: changePercent
\* and the priority of its cursor region
FrameContents == {<<3, 5>>, <<10, 5>>, <<50, 5>>, <<3, 9>>}

PipelineConfigs ==
  {[dailyBudget |-> 2, costPerAnalysis |-> 1, enableCaching |-> c,
    adaptiveQuality |-> TRUE] : c \in BOOLEAN}

\* the priority by the change alone
determinePriorityByChange(changePercent, cursorPriority) ==
  IF changePercent > 20 THEN "high"
  ELSE IF changePercent > 5 THEN "medium"
  ELSE "low"

determinePriority(changePercent, cursorPriority) ==
  IF changePercent > 20 THEN "high"
  ELSE IF cursorPriority > 8 THEN "high"
  ELSE IF changePercent > 5 THEN "medium"
  ELSE "low"

ModelAnswers == {"a1"}

InitPipeline == InitCacheVars /\ InitBudgetVars(PipelineConfigs) /\ InitPipeVars /\ InitStreamVars /\ InitEngine /\ InitPrivacyVars

Emit(e) == emitted' = [emitted EXCEPT ![e] = @ + 1]

Shooter == [isRunning |-> isRunning, starting |-> starting, capturing |-> capturing,
            timers |-> timers, captureInterval |-> captureInterval,
            captureRate |-> captureRate]

Loops(sh) == sh.starting + sh.capturing + sh.timers

\* GPT4OScreenshooter.stop(): clears the one timer this.captureInterval names
stop(sh) ==
  IF ~sh.isRunning THEN sh
  ELSE [sh EXCEPT !.isRunning = FALSE,
                  !.timers = IF sh.captureInterval THEN @ - 1 ELSE @,
                  !.captureInterval = FALSE]

\* GPT4OScreenshooter.start() up to its await of fs.mkdir
start(sh) == IF sh.isRunning THEN sh ELSE [sh EXCEPT !.starting = @ + 1]

\* GPT4OScreenshooter.updateConfig(): a running screenshooter is stopped, and
\* started again in the microtask that follows
updateConfig(sh) == IF sh.isRunning THEN start(stop(sh)) ELSE sh

\* updateConfig({captureRate: rate, ...}): Object.assign, then the restart
updateCaptureRate(sh, rate) == updateConfig([sh EXCEPT !.captureRate = rate])

SetShooter(sh) ==
  /\ isRunning' = sh.isRunning
  /\ starting' = sh.starting
  /\ capturing' = sh.capturing
  /\ timers' = sh.timers
  /\ captureInterval' = sh.captureInterval
  /\ captureRate' = sh.captureRate

\* the 'budgetCritical' listener of the integration calls updateConfig
OnCostEvents(events, sh) ==
  IF "budgetCritical" \in events THEN updateCaptureRate(sh, 1) ELSE sh

\* EnhancedAutoScreenshotIntegration.start(): updateConfig with the adaptive
\* quality settings, then screenshooter.start(); the restart updateConfig
\* queued runs after it
Start ==
  /\ ~integrationRunning
  /\ LET sh == start(updateCaptureRate(Shooter,
                    getAdaptiveQualitySettings(currentUsage, config).captureRate))
     IN  /\ Loops(sh) <= MaxLoops
         /\ SetShooter(sh)
  /\ integrationRunning' = TRUE
  /\ UNCHANGED <<privacyManager, guidanceSystem, engine, snapshot, streamVars, cacheVars, budgetVars, frames, emitted>>

\* GPT4OScreenshooter.start() after fs.mkdir: isRunning is set and the first
\* captureLoop call begins its capture
StartCompletes ==
  /\ starting > 0
  /\ isRunning' = TRUE
  /\ starting' = starting - 1
  /\ capturing' = capturing + 1
  /\ UNCHANGED <<privacyManager, guidanceSystem, engine, snapshot, streamVars, cacheVars, budgetVars, frames,
                 integrationRunning, timers, captureInterval, captureRate, emitted>>

\* EnhancedAutoScreenshotIntegration.stop()
Stop ==
  /\ integrationRunning
  /\ integrationRunning' = FALSE
  /\ SetShooter(stop(Shooter))
  /\ UNCHANGED <<privacyManager, guidanceSystem, engine, snapshot, streamVars, cacheVars, budgetVars, frames, emitted>>

\* a captureLoop timer fires: a stopped screenshooter returns at once, a running
\* one begins a capture.  tracked: the timer is the one captureInterval names
CaptureTick(tracked) ==
  /\ timers > 0
  /\ tracked => captureInterval
  /\ ~tracked => timers > (IF captureInterval THEN 1 ELSE 0)
  /\ timers' = timers - 1
  /\ captureInterval' = (captureInterval /\ ~tracked)
  /\ capturing' = IF isRunning THEN capturing + 1 ELSE capturing
  /\ UNCHANGED <<privacyManager, guidanceSystem, engine, snapshot, streamVars, cacheVars, budgetVars, frames,
                 integrationRunning, isRunning, starting, captureRate, emitted>>

\* captureLoop after its capture: the next capture is scheduled whether or not
\* the screenshooter still runs
ScheduleNext(sh) ==
  [sh EXCEPT !.capturing = @ - 1, !.timers = @ + 1, !.captureInterval = TRUE]

\* captureOptimizedFrame returned null (no region, no screenshot, too little
\* change): no frame
CaptureNothing ==
  /\ capturing > 0
  /\ SetShooter(ScheduleNext(Shooter))
  /\ UNCHANGED <<privacyManager, guidanceSystem, engine, snapshot, streamVars, cacheVars, budgetVars, frames,
                 integrationRunning, emitted>>

\* captureOptimizedFrame threw: the catch block emits 'error' on the
\* screenshooter, on which the integration registers a listener for 'frame'
\* only; emit('error') without a listener throws the error, so captureLoop
\* rejects before it reaches setTimeout
CaptureThrows ==
  /\ capturing > 0
  /\ capturing' = capturing - 1
  /\ UNCHANGED <<privacyManager, guidanceSystem, engine, snapshot, streamVars, cacheVars, budgetVars, frames, integrationRunning,
                 isRunning, starting, timers, captureInterval, captureRate, emitted>>

\* processFrame, lines 167-202, run on emit('frame'): from the frame event to
\* the return on a budget skip, to the start of the model call on a cache miss,
\* or past recordAnalysis to the await of predict on a cache hit
ProcessFrameStart(f, buffer, priority) ==
  LET sp     == shouldProcess(currentUsage, config, priority)
      looked == IF config.enableCaching
                THEN get(cache, perceptualIndex, stats, buffer, PerceptualOf(buffer), now)
                ELSE [cache |-> cache, stats |-> stats, via |-> "off", ret |-> Null]
      r      == recordAnalysis(currentUsage, config, usageHistory, priority, TRUE)
  IN  IF ~sp.ret
      THEN /\ frames' = [frames EXCEPT ![f] = [pc |-> "done"]]
           /\ Emit("skipped")
           /\ SetShooter(ScheduleNext(Shooter))
           /\ UNCHANGED <<cache, stats, currentUsage, usageHistory>>
      ELSE /\ cache' = looked.cache
           /\ stats' = looked.stats
           /\ IF looked.ret # Null
              THEN /\ currentUsage' = r.usage
                   /\ usageHistory' = r.history
                   /\ Loops(OnCostEvents(r.events, Shooter)) <= MaxLoops
                   /\ SetShooter(ScheduleNext(OnCostEvents(r.events, Shooter)))
                   /\ frames' = [frames EXCEPT ![f] =
                                   [pc |-> "predicting"]]
              ELSE /\ frames' = [frames EXCEPT ![f] =
                                   [pc |-> "calling", buffer |-> buffer,
                                    priority |-> priority]]
                   /\ SetShooter(ScheduleNext(Shooter))
                   /\ UNCHANGED <<currentUsage, usageHistory>>
           /\ UNCHANGED emitted

\* captureLoop emits 'frame': the listener runs processFrame up to its first
\* suspension, then captureLoop schedules the next capture
FrameEvent(f, buffer, changePercent, cursorPriority) ==
  /\ capturing > 0
  /\ frames[f].pc = "none"
  /\ \A g \in 1..(f - 1) : frames[g].pc # "none"
  /\ ProcessFrameStart(f, buffer, determinePriority(changePercent, cursorPriority))
  /\ UNCHANGED <<privacyManager, guidanceSystem, engine, snapshot, streamVars, perceptualIndex, now, ops, lastOp, config, today, resetTimers, midnights, integrationRunning>>

\* processFrame, lines 204-247: the model call returned; cache.set and
\* recordAnalysis run back to back, then predict is awaited
StoreAndRecord(f, analysis) ==
  LET r == recordAnalysis(currentUsage, config, usageHistory, frames[f].priority, FALSE)
  IN  /\ IF config.enableCaching
         THEN LET st == set(cache, perceptualIndex, stats, frames[f].buffer,
                            PerceptualOf(frames[f].buffer), analysis,
                            COST_PER_ANALYSIS, now)
              IN  /\ cache' = st.cache
                  /\ perceptualIndex' = st.index
                  /\ stats' = st.stats
                  /\ Emit("cached")
         ELSE UNCHANGED <<cache, perceptualIndex, stats, emitted>>
      /\ currentUsage' = r.usage
      /\ usageHistory' = r.history
      /\ Loops(OnCostEvents(r.events, Shooter)) <= MaxLoops
      /\ SetShooter(OnCostEvents(r.events, Shooter))
      /\ frames' = [frames EXCEPT ![f] = [pc |-> "predicting"]]

ModelResponds(f, analysis) ==
  /\ frames[f].pc = "calling"
  /\ StoreAndRecord(f, analysis)
  /\ UNCHANGED <<privacyManager, guidanceSystem, engine, snapshot, streamVars, now, ops, lastOp, config, today, resetTimers, midnights, integrationRunning>>

\* a catch block that counts the failed call as an analysis
ModelFailsCounted(f) ==
  LET r == recordAnalysis(currentUsage, config, usageHistory, frames[f].priority, FALSE)
  IN  /\ frames[f].pc = "calling"
      /\ frames' = [frames EXCEPT ![f] = [pc |-> "done"]]
      /\ Emit("error")
      /\ currentUsage' = r.usage
      /\ usageHistory' = r.history
      /\ UNCHANGED <<privacyManager, guidanceSystem, engine, snapshot, streamVars, cacheVars, config, today, resetTimers, midnights,
                     integrationRunning, shooterVars>>

\* the model call rejected: the catch block emits 'error'
ModelFails(f) ==
  /\ frames[f].pc = "calling"
  /\ frames' = [frames EXCEPT ![f] = [pc |-> "done"]]
  /\ Emit("error")
  /\ UNCHANGED <<privacyManager, guidanceSystem, engine, snapshot, streamVars, cacheVars, budgetVars,
                 integrationRunning, shooterVars>>

\* processFrame, lines 249-273: predict returned (it catches its own errors);
\* the insight is counted and emitted
PredictReturns(f) ==
  /\ frames[f].pc = "predicting"
  /\ frames' = [frames EXCEPT ![f] = [pc |-> "done"]]
  /\ Emit("insight")
  /\ UNCHANGED <<privacyManager, guidanceSystem, engine, snapshot, streamVars, cacheVars, budgetVars,
                 integrationRunning, shooterVars>>

NextPipeline ==
  \/ Start
  \/ StartCompletes
  \/ Stop
  \/ \E tracked \in BOOLEAN : CaptureTick(tracked)
  \/ CaptureNothing
  \/ CaptureThrows
  \/ \E f \in 1..MaxFrames, b \in Buffers, fc \in FrameContents :
       FrameEvent(f, b, fc[1], fc[2])
  \/ \E f \in 1..MaxFrames, a \in ModelAnswers : ModelResponds(f, a)
  \/ \E f \in 1..MaxFrames : ModelFails(f)
  \/ \E f \in 1..MaxFrames : PredictReturns(f)

SpecPipeline == InitPipeline /\ [][NextPipeline]_vars

\* C1: at most one model call of a pipeline instance is outstanding at any time
C1_AtMostOneCall == Cardinality({f \in 1..MaxFrames : frames[f].pc = "calling"}) <= 1

RECURSIVE SumAnalysisCount(_, _)
SumAnalysisCount(hist, i) ==
  IF i > Len(hist) THEN 0 ELSE hist[i].analysisCount + SumAnalysisCount(hist, i + 1)

\* the analyses the stored usage history accounts for
RecordedAnalyses == SumAnalysisCount(usageHistory, 1)

\* what C2 says of one step: the step stores a model result in the cache
\* exactly when it records one more analysis, and only the step that takes a
\* frame from its model call to predict does either
C2_Step ==
  config.enableCaching =>
    /\ emitted'.cached - emitted.cached = RecordedAnalyses' - RecordedAnalyses
    /\ emitted'.cached - emitted.cached \in {0, 1}
    /\ emitted'.cached # emitted.cached <=>
         \E f \in 1..MaxFrames : frames[f].pc = "calling" /\ frames'[f].pc = "predicting"

\* C2: with caching enabled, every step of the pipeline, whatever it interleaves
\* with, stores a model result in the cache exactly when it records the cost of
\* that result in the usage history, so that in every state the results stored
\* are the results recorded
C2_StoreIffRecorded == [][C2_Step]_vars

\* a result was stored and recorded while another frame's model call is still
\* outstanding and the pipeline has been stopped
C2_Witness ==
  /\ config.enableCaching
  /\ ~integrationRunning
  /\ emitted.cached = 1
  /\ RecordedAnalyses = 1
  /\ \E f \in 1..MaxFrames : frames[f].pc = "calling"

-----------------------------------------------------------------------------
(* Claims about GPT4OCache *)

CacheKeys(c) == {c[i].hash : i \in 1..Len(c)}

\* a handler ran in this step, and it was `name`
Ran(name) == ops' = ops + 1 /\ lastOp'.op = name

\* what C4 says of one step
C4_Step ==
  /\ Len(cache') <= MAX_CACHE_SIZE
  /\ ( /\ Ran("set")
       /\ Len(cache) = MAX_CACHE_SIZE
       /\ ~CacheHas(cache, lastOp'.hash)
       /\ \A i \in 1..Len(cache) : ~Expired(cache[i], now) )
     => /\ Len(cache') = MAX_CACHE_SIZE
        /\ Len(lastOp'.evicted) = 1
        /\ LET k == lastOp'.evicted[1]
           IN  /\ CacheHas(cache, k)
               /\ \A i \in 1..Len(cache) :
                    CacheGet(cache, k).lastAccessed <= cache[i].lastAccessed
               /\ CacheKeys(cache') = (CacheKeys(cache) \ {k}) \cup {lastOp'.hash}

\* C4: the cache never holds more than MAX_CACHE_SIZE entries; a set() of a new
\* hash into a full cache with no expired entry leaves exactly MAX_CACHE_SIZE
\* entries, and the one entry removed has the oldest lastAccessed.
C4_EvictionBound == [][C4_Step]_vars

\* a set() of a new hash into a full cache evicted one entry, nothing being
\* expired, the entries having been stored at different times
C4_Witness ==
  /\ lastOp.op = "set"
  /\ ~lastOp.wasPresent
  /\ Len(lastOp.evicted) = 1
  /\ Len(cache) = MAX_CACHE_SIZE
  /\ now <= TTL_MS
  /\ now > 0

\* C5: every entry of the primary map has its hash listed in the index bucket
\* of its own fingerprint.
C5_EntriesIndexed ==
  \A i \in 1..Len(cache) :
    cache[i].hash \in SeqToSet(IndexGet(perceptualIndex, cache[i].perceptualHash))

\* C6: every hash listed in an index bucket is the key of an existing entry
\* carrying that bucket's fingerprint, and no bucket is empty.
C6_IndexSound ==
  \A b \in 1..Len(perceptualIndex) :
    /\ Len(perceptualIndex[b].hashes) > 0
    /\ \A h \in SeqToSet(perceptualIndex[b].hashes) :
         /\ CacheHas(cache, h)
         /\ CacheGet(cache, h).perceptualHash = perceptualIndex[b].fp

\* the parts of C7: set() creates the entry with the analysis given; every hit
\* increases accessCount by exactly 1; the lookup that follows the set() of an
\* absent hash returns that entry with accessCount n
C7_SetCreates ==
  Ran("set") =>
    /\ CacheHas(cache', lastOp'.hash)
    /\ CacheGet(cache', lastOp'.hash).analysis = lastOp'.analysis
    /\ CacheGet(cache', lastOp'.hash).perceptualHash = lastOp'.fp

C7_HitIncrements ==
  (Ran("get") /\ lastOp'.ret # Null) =>
    /\ CacheHas(cache, lastOp'.ret.hash)
    /\ lastOp'.ret.accessCount = CacheGet(cache, lastOp'.ret.hash).accessCount + 1
    /\ CacheGet(cache', lastOp'.ret.hash) = lastOp'.ret

C7_FirstLookup(n) ==
  ( /\ lastOp.op = "set"
    /\ ~lastOp.wasPresent
    /\ Ran("get")
    /\ lastOp'.hash = lastOp.hash
    /\ lastOp'.fp = lastOp.fp )
  => /\ lastOp'.ret # Null
     /\ lastOp'.ret.hash = lastOp.hash
     /\ lastOp'.ret.analysis = lastOp.analysis
     /\ lastOp'.ret.accessCount = n

\* C7 (as claimed): the first lookup after store returns accessCount 1, later
\* hits increment it by 1.
C7_FirstHitCountsOne ==
  [][C7_SetCreates /\ C7_HitIncrements /\ C7_FirstLookup(1)]_vars

\* C7 (as amended): set() initialises accessCount to 1 and the first hit already
\* increments it, so the first lookup returns the entry with accessCount 2.
C7_FirstHitCountsTwo ==
  [][C7_SetCreates /\ C7_HitIncrements /\ C7_FirstLookup(2)]_vars

\* an entry was hit a second time, by its exact hash
C7_Witness ==
  /\ lastOp.op = "get"
  /\ lastOp.via = "exact"
  /\ lastOp.ret.accessCount = 3

\* C8: a lookup never returns an entry whose age exceeds TTL_MS.
C8_NoExpiredReturned ==
  (lastOp.op = "get" /\ lastOp.ret # Null) => ~Expired(lastOp.ret, now)

\* what C9 says of one step
C9_Step ==
  Ran("pruneExpired") =>
    LET kept    == SelectSeq(cache, LAMBDA e : ~Expired(e, now))
        removed == CacheKeys(cache) \ CacheKeys(kept)
    IN  /\ cache' = kept
        /\ lastOp'.pruned = Cardinality(removed)
        /\ \A h \in removed :
             /\ ~CacheHas(cache', h)
             /\ \A b \in 1..Len(perceptualIndex') :
                  h \notin SeqToSet(perceptualIndex'[b].hashes)
             /\ \A g \in Hashes, fp \in Fingerprints :
                  LET r == get(cache', perceptualIndex', stats', g, fp, now')
                  IN  r.ret = Null \/ r.ret.hash # h

\* C9: pruneExpired() removes exactly the entries older than TTL_MS, returns
\* their number, leaves the others unchanged; a removed entry is absent from
\* the primary map and from the index, and no lookup returns it.
C9_PruneRemovesExpired == [][C9_Step]_vars

\* the hashes a bucket lists that are keys of the primary map
LiveIn(c, bucket) == {h \in SeqToSet(bucket.hashes) : CacheHas(c, h)}

\* the buckets whose fingerprint is within the threshold of q and that list a
\* live entry
Candidates(c, idx, q) ==
  {b \in 1..Len(idx) : /\ hammingDistance(q, idx[b].fp) <= SIMILARITY_THRESHOLD
                       /\ LiveIn(c, idx[b]) # {}}

C10_ExactFirst ==
  (Ran("get") /\ CacheHas(cache, lastOp'.hash)) =>
    /\ lastOp'.via = "exact"
    /\ lastOp'.ret.hash = lastOp'.hash

C10_MostRecentStep ==
  (Ran("get") /\ ~CacheHas(cache, lastOp'.hash)) =>
    LET cand == Candidates(cache, perceptualIndex, lastOp'.fp)
        pool == UNION {LiveIn(cache, perceptualIndex[b]) : b \in cand}
    IN  IF pool = {} THEN lastOp'.ret = Null
        ELSE /\ lastOp'.ret # Null
             /\ lastOp'.ret.hash \in pool
             /\ \A h \in pool : CacheGet(cache, h).lastAccessed
                                 <= CacheGet(cache, lastOp'.ret.hash).lastAccessed

C10_ClosestStep ==
  (Ran("get") /\ ~CacheHas(cache, lastOp'.hash)) =>
    LET q    == lastOp'.fp
        cand == Candidates(cache, perceptualIndex, q)
    IN  IF cand = {} THEN lastOp'.ret = Null
        ELSE LET best == CHOOSE b \in cand : \A o \in cand :
                           LET db == hammingDistance(q, perceptualIndex[b].fp)
                               do == hammingDistance(q, perceptualIndex[o].fp)
                           IN  db < do \/ (db = do /\ b <= o)
                 live == LiveIn(cache, perceptualIndex[best])
             IN  /\ lastOp'.ret # Null
                 /\ lastOp'.ret.hash \in live
                 /\ \A h \in live : CacheGet(cache, h).lastAccessed
                                     <= CacheGet(cache, lastOp'.ret.hash).lastAccessed

\* C10 (as claimed): on an exact miss the lookup returns, among all entries under
\* fingerprints within the threshold, the most recently accessed one; an exact
\* match takes precedence.
C10_MostRecentWins == [][C10_ExactFirst /\ C10_MostRecentStep]_vars

\* C10 (as amended): on an exact miss the lookup returns from the bucket of the
\* closest fingerprint within the threshold (the first inserted of equally close
\* ones, buckets without a live entry skipped) that bucket's most recently
\* accessed entry; an exact match takes precedence.
C10_ClosestBucketWins == [][C10_ExactFirst /\ C10_ClosestStep]_vars

\* a near-duplicate lookup returned an entry on its first hit while a farther
\* fingerprint within the threshold listed an entry accessed more recently
C10_Witness ==
  /\ lastOp.op = "get"
  /\ lastOp.via = "similar"
  /\ lastOp.ret.accessCount = 2
  /\ \E i \in 1..Len(cache) :
       /\ cache[i].hash # lastOp.ret.hash
       /\ cache[i].lastAccessed > lastOp.ret.timestamp
       /\ cache[i].hash \in SeqToSet(IndexGet(perceptualIndex, cache[i].perceptualHash))
       /\ hammingDistance(lastOp.fp, cache[i].perceptualHash) <= SIMILARITY_THRESHOLD
       /\ hammingDistance(lastOp.fp, cache[i].perceptualHash)
            > hammingDistance(lastOp.fp, lastOp.ret.perceptualHash)

-----------------------------------------------------------------------------
(* SpecSimilar: one entry stored under any fingerprint of FpBits bits (or a  *)
(* shorter one), then looked up by near-duplicate fingerprint                *)

SimilarFingerprints == [1..FpBits -> {0, 1}] \cup {[i \in 1..(FpBits - 1) |-> 0]}

SimilarQueries == {[i \in 1..FpBits |-> 0], [i \in 1..(FpBits - 1) |-> 0]}

SimilarStore(fp) ==
  /\ Len(cache) = 0
  /\ Store(1, fp, "a1")

SimilarLookup(q) ==
  /\ Len(cache) > 0
  /\ Lookup(2, q)

NextSimilar ==
  \/ \E fp \in SimilarFingerprints : SimilarStore(fp)
  \/ \E q \in SimilarQueries : SimilarLookup(q)

SpecSimilar == InitCache /\ [][NextSimilar]_vars

\* the positions at which two fingerprints of the same length differ
C11_Differing(a, b) == Cardinality({i \in 1..Len(a) : a[i] # b[i]})

\* the fingerprints a query may match: same length, and d(a, b) in range
C11_Matches(a, b, strict) ==
  /\ Len(a) = Len(b)
  /\ IF strict THEN C11_Differing(a, b) < 5 ELSE C11_Differing(a, b) <= 5

C11_Lookup(strict) ==
  (lastOp.op = "get" /\ lastOp.via # "exact") =>
    /\ lastOp.ret # Null <=>
         \E i \in 1..Len(cache) : C11_Matches(lastOp.fp, cache[i].perceptualHash, strict)
    /\ lastOp.ret # Null => C11_Matches(lastOp.fp, lastOp.ret.perceptualHash, strict)

\* C11 (as claimed): a near-duplicate lookup hits only fingerprints of the same
\* length at Hamming distance strictly below 5; distance exactly 5 is a miss.
C11_StrictlyBelowThreshold == C11_Lookup(TRUE)

\* C11 (as amended): a near-duplicate lookup hits exactly the fingerprints of
\* the same length at Hamming distance at most 5, distance 5 included;
\* fingerprints of different lengths never match.
C11_AtMostThreshold == C11_Lookup(FALSE)

\* a lookup hit an entry whose fingerprint is at distance exactly 5
C11_Witness ==
  /\ lastOp.op = "get"
  /\ lastOp.via = "similar"
  /\ C11_Differing(lastOp.fp, lastOp.ret.perceptualHash) = 5

-----------------------------------------------------------------------------
(* Claims about CostOptimizer *)

\* a recordAnalysis call ran in this step
RanRecordAnalysis == lastOp'.op = "recordAnalysis" /\ currentUsage' # currentUsage

\* what C12 says of one step
C12_Step ==
  RanRecordAnalysis =>
    LET p == lastOp'.priority
    IN  /\ IF lastOp'.cached
           THEN /\ currentUsage'.cachedCount = currentUsage.cachedCount + 1
                /\ currentUsage'.totalCost = currentUsage.totalCost
                /\ currentUsage'.analysisCount = currentUsage.analysisCount
           ELSE /\ currentUsage'.totalCost = currentUsage.totalCost + config.costPerAnalysis
                /\ currentUsage'.analysisCount = currentUsage.analysisCount + 1
                /\ currentUsage'.cachedCount = currentUsage.cachedCount
        /\ currentUsage'.priorityBreakdown[p] = currentUsage.priorityBreakdown[p] + 1
        /\ \A q \in {"high", "medium", "low"} \ {p} :
             currentUsage'.priorityBreakdown[q] = currentUsage.priorityBreakdown[q]
        /\ currentUsage'.date = currentUsage.date
        /\ Cardinality({i \in 1..Len(usageHistory') :
                          usageHistory'[i].date = currentUsage'.date}) = 1
        /\ \E i \in 1..Len(usageHistory') : usageHistory'[i] = currentUsage'

\* C12: recordAnalysis(priority, false) adds costPerAnalysis to totalCost and 1
\* to analysisCount and leaves cachedCount; recordAnalysis(priority, true) adds
\* 1 to cachedCount only; both add 1 to priorityBreakdown[priority] alone, and
\* the updated record is the stored record of its date.
C12_RecordAnalysisEffect == [][C12_Step]_vars

\* a cached medium-priority analysis was recorded after paid ones
C12_Witness ==
  /\ lastOp.op = "recordAnalysis"
  /\ lastOp.cached
  /\ lastOp.priority = "medium"
  /\ currentUsage.analysisCount = 2
  /\ currentUsage.cachedCount = 1
  /\ currentUsage.priorityBreakdown.medium = 1

\* the frames that reached the governor and were not turned away by it
ProceededFrames == Cardinality({f \in 1..MaxFrames : frames[f].pc # "none"}) - emitted.skipped

\* C13: once no model call is in flight, analysisCount + cachedCount of the
\* day's usage record equals the number of frames that reached the governor
\* and were let through or served from the cache.
C13_CountsMatchFrames ==
  (\A f \in 1..MaxFrames : frames[f].pc # "calling") =>
    currentUsage.analysisCount + currentUsage.cachedCount = ProceededFrames

\* the remaining budget is at most p percent of the daily budget
C14_RemainingAtMost(u, p) ==
  LET remaining == IF config.dailyBudget - u.totalCost > 0
                   THEN config.dailyBudget - u.totalCost ELSE 0
  IN  remaining * 100 <= p * config.dailyBudget

\* what C14 says of one recordAnalysis call and of the call before it
C14_Step ==
  RanRecordAnalysis =>
    /\ "budgetCritical" \in lastOp'.events => C14_RemainingAtMost(currentUsage', 10)
    /\ "budgetLow" \in lastOp'.events => C14_RemainingAtMost(currentUsage', 25)
    /\ lastOp.op = "recordAnalysis" =>
         /\ ("budgetCritical" \in lastOp.events /\ "budgetCritical" \in lastOp'.events)
              => currentUsage'.analysisCount >= currentUsage.analysisCount + 10
         /\ ("budgetLow" \in lastOp.events /\ "budgetLow" \in lastOp'.events)
              => currentUsage'.analysisCount >= currentUsage.analysisCount + 20

\* C14: 'budgetCritical' is emitted only with at most 10% of the budget left and
\* 'budgetLow' only with at most 25%; two recordAnalysis calls in a row never
\* emit the same alert, at least 10 (20) analyses lying between two emissions.
C14_AlertsThrottled == [][C14_Step]_vars


-----------------------------------------------------------------------------
(* SpecReset: the cost optimizer across local midnights *)

MaxMidnights == 2
MaxResetRecords == 2

\* loadTodayUsage() starting every day from the counts of a fresh record
\* while keeping the stored cost
loadTodayUsageKeepingCost(hist, date) ==
  IF \E i \in 1..Len(hist) : hist[i].date = date
  THEN [FreshUsage(date) EXCEPT
          !.totalCost = hist[CHOOSE i \in 1..Len(hist) : hist[i].date = date].totalCost]
  ELSE FreshUsage(date)

\* loadTodayUsage(): the stored record of the date, or a fresh one
loadTodayUsage(hist, date) ==
  IF \E i \in 1..Len(hist) : hist[i].date = date
  THEN hist[CHOOSE i \in 1..Len(hist) : hist[i].date = date]
  ELSE FreshUsage(date)

\* The timer is set for local midnight and loadTodayUsage reads the UTC date:
\* at the first midnight after construction the UTC date is the one read at
\* construction or the next one, and it advances by one per midnight after that
UtcDatesAtMidnight == IF midnights = 0 THEN {today, today + 1} ELSE {today + 1}

\* what the timer callback meets: it runs through, the store read of
\* loadTodayUsage throws, or a 'dailyReset' listener throws out of emit
ResetOutcomes == {"ok", "loadThrows", "listenerThrows"}

InitReset == InitCacheVars /\ InitBudgetVars({UnitCostConfig}) /\ InitPipeVars /\ InitStreamVars /\ InitEngine /\ InitPrivacyVars

ResetRecord(cached) ==
  /\ currentUsage.analysisCount + currentUsage.cachedCount < MaxResetRecords
  /\ RecordAnalysis("high", cached)

\* the callback of scheduleDailyReset: resetDailyUsage(), then scheduleDailyReset()
ResetFires(date, outcome) ==
  /\ resetTimers > 0
  /\ midnights < MaxMidnights
  /\ date \in UtcDatesAtMidnight
  /\ midnights' = midnights + 1
  /\ IF outcome = "loadThrows"
     THEN UNCHANGED <<currentUsage, today>>
     ELSE /\ currentUsage' = loadTodayUsage(usageHistory, date)
          /\ today' = date
  /\ resetTimers' = IF outcome = "ok" THEN resetTimers ELSE resetTimers - 1
  /\ lastOp' = [op |-> "dailyReset", date |-> date, outcome |-> outcome,
                events |-> IF outcome = "loadThrows" THEN {} ELSE {"dailyReset"}]
  /\ UNCHANGED <<privacyManager, guidanceSystem, engine, snapshot, streamVars, cache, perceptualIndex, stats, now, ops, config, usageHistory, pipeVars>>

NextReset ==
  \/ \E c \in BOOLEAN : ResetRecord(c)
  \/ \E d \in 0..MaxMidnights, o \in ResetOutcomes : ResetFires(d, o)

SpecReset == InitReset /\ [][NextReset]_vars

\* C15: from construction on exactly one daily-reset timer is pending, also
\* after a firing whose reset handler failed.
C15_OneResetTimerPending == resetTimers = 1

C16_Step ==
  (midnights' = midnights + 1 /\ lastOp'.outcome = "ok") =>
    /\ currentUsage'.date # currentUsage.date
    /\ (~ \E i \in 1..Len(usageHistory) : usageHistory[i].date = currentUsage'.date)
         => currentUsage' = FreshUsage(currentUsage'.date)
    /\ "dailyReset" \in lastOp'.events

\* C16: when the reset timer fires at local midnight and its handler runs
\* through, currentUsage becomes the record of a new calendar day, with zero
\* cost and counters when none was persisted for it, and 'dailyReset' is emitted.
C16_ResetStartsNewDay == [][C16_Step]_vars


-----------------------------------------------------------------------------
(* SpecQuality: getAdaptiveQualitySettings() as the budget is spent *)

QualityConfigs ==
  {[dailyBudget |-> 10, costPerAnalysis |-> 1, enableCaching |-> TRUE,
    adaptiveQuality |-> a] : a \in BOOLEAN}

InitQuality == InitCacheVars /\ InitBudgetVars(QualityConfigs) /\ InitPipeVars /\ InitStreamVars /\ InitEngine /\ InitPrivacyVars

GetAdaptiveQualitySettings ==
  /\ lastOp' = [op |-> "getAdaptiveQualitySettings",
                ret |-> getAdaptiveQualitySettings(currentUsage, config)]
  /\ UNCHANGED <<privacyManager, guidanceSystem, engine, snapshot, streamVars, cache, perceptualIndex, stats, now, ops, budgetVars, pipeVars>>

NextQuality ==
  \/ \E p \in Priorities : RecordAnalysis(p, FALSE)
  \/ GetAdaptiveQualitySettings

SpecQuality == InitQuality /\ [][NextQuality]_vars

\* s1 is at least as demanding as s2
C17_AtLeast(s1, s2) ==
  /\ s1.captureRate >= s2.captureRate
  /\ s1.imageQuality >= s2.imageQuality
  /\ s1.resolution >= s2.resolution
  /\ s1.diffThreshold <= s2.diffThreshold

\* C17: getAdaptiveQualitySettings() is monotone in the remaining budget
\* percentage: against the settings at any other amount spent, a percentage at
\* least as high gives captureRate, imageQuality and resolution at least as
\* high and a diffThreshold at most as high; and with adaptiveQuality on the
\* settings are those of the tier (>70, >40, >20, otherwise) of the percentage.
C17_MonotoneQuality ==
  lastOp.op = "getAdaptiveQualitySettings" =>
    /\ \A spent \in 0..(MaxRecords + 1) :
         LET u2 == [currentUsage EXCEPT !.totalCost = spent]
             s2 == getAdaptiveQualitySettings(u2, config)
             p1 == BudgetPercentageTimesBudget(currentUsage, config)
             p2 == BudgetPercentageTimesBudget(u2, config)
         IN  /\ p1 >= p2 => C17_AtLeast(lastOp.ret, s2)
             /\ p2 >= p1 => C17_AtLeast(s2, lastOp.ret)
    /\ config.adaptiveQuality =>
         LET left == config.dailyBudget - currentUsage.totalCost
             Over(t) == left > 0 /\ left * 100 > t * config.dailyBudget
         IN  lastOp.ret.captureRate =
               IF Over(70) THEN 5 ELSE IF Over(40) THEN 3 ELSE IF Over(20) THEN 2 ELSE 1

C17_Witness ==
  /\ lastOp.op = "getAdaptiveQualitySettings"
  /\ config.adaptiveQuality
  /\ lastOp.ret.captureRate = 2


-----------------------------------------------------------------------------
(* SpecStream: processStream runs on the one GPT4OStreamHandler.  The        *)
(* integration calls streamAnalysis from every processFrame that reaches the *)
(* model, so runs overlap and share buffer, actionDetected and               *)
(* errorDetected; a run is suspended between the chunks of its stream.  The  *)
(* response text is a sequence of fragments, a chunk's content some of them. *)

MaxChunks == 2
UPDATE_EVERY == 20

Fragments == {"click ", "Save ", "Error: ", "Cmd+"}

\* the pieces of a response in the grammar of the prompts: line prefixes,
\* values and the line break
GrammarFragments ==
  {"SUMMARY: ", "APP: ", "- ", "ERRORS: ", "SHORTCUTS: ", "Build failed", "Xcode",
   "Clean build folder", "None", "Cmd+Shift+K", "\n"}

\* the number of characters of a fragment
FragmentLength(x) ==
  CASE x = "click " -> 6 [] x = "Save " -> 5 [] x = "Error: " -> 7 [] x = "Cmd+" -> 4
    [] x = "SUMMARY: " -> 9 [] x = "APP: " -> 5 [] x = "- " -> 2 [] x = "ERRORS: " -> 8
    [] x = "SHORTCUTS: " -> 11 [] x = "Build failed" -> 12 [] x = "Xcode" -> 5
    [] x = "Clean build folder" -> 18 [] x = "None" -> 4 [] x = "Cmd+Shift+K" -> 11
    [] x = "\n" -> 1

\* chunk.choices[0]?.delta?.content || ''
ChunkContents ==
  {<<>>, <<"click ">>, <<"click ", "Save ">>, <<"Save ", "Save ">>, <<"Error: ">>,
   <<"Cmd+", "Save ">>}

Streams == UNION {[1..n -> ChunkContents] : n \in 0..MaxChunks}

RECURSIVE TextLength(_)
TextLength(text) ==
  IF text = <<>> THEN 0 ELSE FragmentLength(Head(text)) + TextLength(Tail(text))

RECURSIVE StreamLength(_)
StreamLength(stream) ==
  IF stream = <<>> THEN 0 ELSE TextLength(Head(stream)) + StreamLength(Tail(stream))

\* "click " with no text behind it
detectClickAlone(partial) == \E i \in 1..Len(partial) : partial[i] = "click "

\* /click\s+(?:on\s+)?["']?([^"'\n]+)["']?/i: "click", white space (line breaks
\* included) and at least one more character that is no line break; none of
\* the other ACTION_PATTERNS occurs in Fragments or GrammarFragments
detectActionableInsight(partial) ==
  \E i \in 1..Len(partial) :
    partial[i] = "click " /\ \E j \in (i + 1)..Len(partial) : partial[j] # "\n"

\* /error:\s*([^\n]+)/i: matches "Error: " alone, its blank taken by the group.
\* No ERROR_PATTERNS entry matches GrammarFragments text: "ERRORS:" has an S
\* before the colon, and "failed" is never followed by "to"
detectError(partial) == \E i \in 1..Len(partial) : partial[i] = "Error: "

\* SHORTCUT_PATTERNS: the first is /.../gi, the second /.../i
SHORTCUT_PATTERNS ==
  <<[source |-> "modifier+word", global |-> TRUE],
    [source |-> "keyboard shortcut:", global |-> FALSE]>>

\* the matches of /((?:cmd|ctrl|alt|shift|...)\+\w+)/gi from fragment i on:
\* "Cmd+" and the word that starts the next fragment, which the match consumes
RECURSIVE ModifierMatches(_, _)
ModifierMatches(partial, i) ==
  IF i > Len(partial) THEN <<>>
  ELSE IF partial[i] = "Cmd+Shift+K"
       THEN <<(<<"Cmd+", "Shift">>)>> \o ModifierMatches(partial, i + 1)
  ELSE IF partial[i] = "Cmd+" /\ i < Len(partial) /\ partial[i + 1] \notin {"\n", "- "}
       THEN <<(<<partial[i], partial[i + 1]>>)>> \o ModifierMatches(partial, i + 2)
       ELSE ModifierMatches(partial, i + 1)

\* String.prototype.matchAll(regexp) throws a TypeError when regexp has no g flag
matchAll(partial, pattern) ==
  IF ~pattern.global THEN [threw |-> TRUE, matches |-> <<>>]
  ELSE [threw |-> FALSE,
        matches |-> IF pattern.source = "modifier+word"
                    THEN ModifierMatches(partial, 1) ELSE <<>>]

\* if (!shortcuts.includes(shortcut)) shortcuts.push(shortcut), for each match
RECURSIVE pushNew(_, _)
pushNew(shortcuts, matches) ==
  IF matches = <<>> THEN shortcuts
  ELSE pushNew(IF \E k \in 1..Len(shortcuts) : shortcuts[k] = Head(matches)
               THEN shortcuts ELSE Append(shortcuts, Head(matches)),
               Tail(matches))

RECURSIVE detectShortcutsFrom(_, _, _)
detectShortcutsFrom(partial, p, shortcuts) ==
  IF p > Len(SHORTCUT_PATTERNS) THEN [threw |-> FALSE, shortcuts |-> shortcuts]
  ELSE LET m == matchAll(partial, SHORTCUT_PATTERNS[p])
       IN  IF m.threw THEN [threw |-> TRUE, shortcuts |-> <<>>]
           ELSE detectShortcutsFrom(partial, p + 1, pushNew(shortcuts, m.matches))

detectShortcuts(partial) == detectShortcutsFrom(partial, 1, <<>>)

\* this.buffer.split('\n').filter(line => line.trim()): the lines that hold text
RECURSIVE splitLines(_, _)
splitLines(text, line) ==
  IF text = <<>> THEN (IF line = <<>> THEN <<>> ELSE <<line>>)
  ELSE IF Head(text) = "\n"
       THEN (IF line = <<>> THEN <<>> ELSE <<line>>) \o splitLines(Tail(text), <<>>)
       ELSE splitLines(Tail(text), Append(line, Head(text)))

EmptyAnalysis(text, processingTime) ==
  [summary |-> <<>>, application |-> <<"Unknown">>, actions |-> <<>>, errors |-> <<>>,
   shortcuts |-> <<>>, fullResponse |-> text, processingTime |-> processingTime]

\* the startsWith chain of finalizeAnalysis for one line; the value is what
\* follows the prefix, trimmed
extractLine(analysis, line) ==
  LET value == Tail(line)
  IN  CASE Head(line) = "SUMMARY: " -> [analysis EXCEPT !.summary = value]
        [] Head(line) = "APP: " -> [analysis EXCEPT !.application = value]
        [] Head(line) = "- " -> [analysis EXCEPT !.actions = Append(@, value)]
        [] Head(line) = "ERRORS: " ->
             IF value # <<>> /\ value # <<"None">>
             THEN [analysis EXCEPT !.errors = Append(@, value)] ELSE analysis
        [] Head(line) = "SHORTCUTS: " ->
             IF value # <<>> /\ value # <<"None">>
             THEN [analysis EXCEPT !.shortcuts = <<value>>] ELSE analysis
        [] OTHER -> analysis

RECURSIVE extractLines(_, _)
extractLines(analysis, lines) ==
  IF lines = <<>> THEN analysis
  ELSE extractLines(extractLine(analysis, Head(lines)), Tail(lines))

\* the matches of the click pattern with the g flag: from "click " over white
\* space to the end of the line that holds the next text
RECURSIVE inlineActions(_, _)
inlineActions(text, i) ==
  IF i > Len(text) THEN <<>>
  ELSE IF text[i] = "click " /\ \E j \in (i + 1)..Len(text) : text[j] # "\n"
       THEN LET first == CHOOSE j \in (i + 1)..Len(text) :
                           text[j] # "\n" /\ \A k \in (i + 1)..(j - 1) : text[k] = "\n"
                last  == CHOOSE e \in first..Len(text) :
                           /\ \A k \in first..e : text[k] # "\n"
                           /\ e = Len(text) \/ text[e + 1] = "\n"
            IN  <<SubSeq(text, i, last)>> \o inlineActions(text, last + 1)
       ELSE inlineActions(text, i + 1)

\* a.includes(action)
includes(a, action) ==
  \E k \in 0..(Len(a) - Len(action)) : SubSeq(a, k + 1, k + Len(action)) = action

\* if (!analysis.actions.some(a => a.includes(action))) analysis.actions.push(action)
RECURSIVE pushMissed(_, _)
pushMissed(actions, found) ==
  IF found = <<>> THEN actions
  ELSE pushMissed(IF \E k \in 1..Len(actions) : includes(actions[k], Head(found))
                  THEN actions ELSE Append(actions, Head(found)),
                  Tail(found))

finalizeAnalysis(text, started, clock) ==
  LET parsed == extractLines(EmptyAnalysis(text, clock - started), splitLines(text, <<>>))
  IN  [parsed EXCEPT !.actions = pushMissed(@, inlineActions(text, 1))]

InitStream ==
  InitCacheVars /\ InitBudgetVars({UnitCostConfig}) /\ InitPipeVars /\ InitStreamVars /\ InitEngine /\ InitPrivacyVars

\* processStream up to its first wait for a chunk: reset()
ProcessStream(r, stream) ==
  /\ runs[r].pc = "idle"
  /\ streamBuffer' = <<>>
  /\ actionDetected' = FALSE
  /\ errorDetected' = FALSE
  /\ startTime' = now
  /\ runs' = [runs EXCEPT ![r] = [IdleRun EXCEPT !.pc = "reading", !.stream = stream,
                                                 !.length = StreamLength(stream)]]
  /\ lastOp' = [op |-> "processStream", run |-> r]
  /\ UNCHANGED <<privacyManager, guidanceSystem, engine, snapshot, cache, perceptualIndex, stats, now, ops, budgetVars, pipeVars>>

\* one turn of the for await loop; an exception leaves it through the catch
Chunk(r) ==
  /\ runs[r].pc = "reading"
  /\ runs[r].stream # <<>>
  /\ LET token  == Head(runs[r].stream)
         buf    == streamBuffer \o token
         action == ~actionDetected /\ detectActionableInsight(buf)
         error  == ~errorDetected /\ detectError(buf)
         update == TextLength(buf) % UPDATE_EVERY = 0
         found  == detectShortcuts(buf)
         some   == ~found.threw /\ Len(found.shortcuts) > 0
     IN  /\ streamBuffer' = buf
         /\ actionDetected' = (actionDetected \/ action)
         /\ errorDetected' = (errorDetected \/ error)
         /\ runs' = [runs EXCEPT
                       ![r].pc = IF found.threw THEN "failed" ELSE "reading",
                       ![r].stream = Tail(@),
                       ![r].received = @ \o token,
                       ![r].instantAction = @ + (IF action THEN 1 ELSE 0),
                       ![r].instantError = @ + (IF error THEN 1 ELSE 0),
                       ![r].partialUpdate = @ + (IF update THEN 1 ELSE 0),
                       ![r].shortcutsEmitted =
                          @ \cup (IF some
                                  THEN {found.shortcuts[k] : k \in 1..Len(found.shortcuts)}
                                  ELSE {})]
         /\ lastOp' = [op |-> "chunk", run |-> r,
                       events |-> (IF action THEN {"instantAction"} ELSE {})
                                  \cup (IF error THEN {"instantError"} ELSE {})
                                  \cup (IF update THEN {"partialUpdate"} ELSE {})
                                  \cup (IF some THEN {"shortcuts"} ELSE {}),
                       shortcuts |-> IF some THEN found.shortcuts ELSE <<>>]
  /\ UNCHANGED <<privacyManager, guidanceSystem, engine, snapshot, cache, perceptualIndex, stats, now, ops, budgetVars, pipeVars, startTime>>

\* the stream has ended: finalizeAnalysis() emits 'complete'
FinalizeAnalysis(r) ==
  /\ runs[r].pc = "reading"
  /\ runs[r].stream = <<>>
  /\ runs' = [runs EXCEPT ![r].pc = "complete"]
  /\ lastOp' = [op |-> "finalizeAnalysis", run |-> r, events |-> {"complete"},
                analysis |-> finalizeAnalysis(streamBuffer, startTime, now)]
  /\ UNCHANGED <<privacyManager, guidanceSystem, engine, snapshot, cache, perceptualIndex, stats, now, ops, budgetVars, pipeVars,
                 streamBuffer, actionDetected, errorDetected, startTime>>

NextStream ==
  \/ \E r \in Runs, stream \in Streams : ProcessStream(r, stream)
  \/ \E r \in Runs : Chunk(r)
  \/ \E r \in Runs : FinalizeAnalysis(r)

SpecStream == InitStream /\ [][NextStream]_vars

\* the buffer holds "click" followed by white space and more text
C18_ActionIn(text) == \E i \in 1..Len(text) : text[i] = "click " /\ i < Len(text)

\* the buffer holds "Error:"
C18_ErrorIn(text) == "Error: " \in {text[i] : i \in 1..Len(text)}

C18_Step ==
  \A r \in Runs :
    /\ runs'[r].instantAction <= 1
    /\ runs'[r].instantError <= 1
    /\ runs'[r].instantAction > runs[r].instantAction =>
         /\ runs[r].pc = "reading"
         /\ C18_ActionIn(streamBuffer') /\ ~C18_ActionIn(streamBuffer)
    /\ runs'[r].instantError > runs[r].instantError =>
         /\ runs[r].pc = "reading"
         /\ C18_ErrorIn(streamBuffer') /\ ~C18_ErrorIn(streamBuffer)

C19_UpdateEveryTwenty ==
  \A r \in Runs :
    runs[r].pc \in {"complete", "failed"} =>
      runs[r].partialUpdate >= runs[r].length \div UPDATE_EVERY

C20_Step ==
  (lastOp'.op = "chunk" /\ runs' # runs) =>
    LET r     == lastOp'.run
        inBuf == ModifierMatches(streamBuffer', 1)
        fresh == {inBuf[k] : k \in 1..Len(inBuf)} \ runs[r].shortcutsEmitted
    IN  /\ ("shortcuts" \in lastOp'.events) <=> (fresh # {})
        /\ {lastOp'.shortcuts[k] : k \in 1..Len(lastOp'.shortcuts)} \subseteq fresh

-----------------------------------------------------------------------------
(* SpecGrammar: one processStream run fed a response in the grammar of the  *)
(* prompts, cut into chunks in every possible way                           *)

\* "SUMMARY: Build failed\nAPP: Xcode\n- Clean build folder\nERRORS: ...\n
\* SHORTCUTS: Cmd+Shift+K\n" with the given value of the ERRORS: line
GrammarResponse(errors) ==
  <<"SUMMARY: ", "Build failed", "\n", "APP: ", "Xcode", "\n", "- ",
    "Clean build folder", "\n", "ERRORS: ", errors, "\n", "SHORTCUTS: ",
    "Cmd+Shift+K", "\n">>

\* the ways to cut a text into chunks that are not empty
RECURSIVE Tokenizations(_)
Tokenizations(text) ==
  IF text = <<>> THEN {<<>>}
  ELSE UNION {{<<SubSeq(text, 1, k)>> \o rest :
                 rest \in Tokenizations(SubSeq(text, k + 1, Len(text)))} :
              k \in 1..Len(text)}

\* the streams of the responses, and the stream that ends without a chunk
GrammarStreams ==
  {<<>>} \cup Tokenizations(GrammarResponse("Build failed"))
         \cup Tokenizations(GrammarResponse("None"))

NextGrammar ==
  \/ /\ runs[1].pc = "idle"
     /\ \E stream \in GrammarStreams : ProcessStream(1, stream)
  \/ Chunk(1)
  \/ FinalizeAnalysis(1)

SpecGrammar == InitStream /\ [][NextGrammar]_vars

\* C21: a run that was fed a response in the grammar ends finalized, with the
\* summary, application, actions, errors and shortcuts of the SUMMARY:, APP:,
\* bullet, ERRORS: and SHORTCUTS: lines, and with exactly one 'instantError'
\* when the ERRORS: line has a value other than None (none otherwise).
C21_GrammarParsed ==
  \A r \in Runs :
    (runs[r].pc \in {"complete", "failed"} /\ runs[r].length > 0) =>
      /\ runs[r].pc = "complete"
      /\ lastOp.op = "finalizeAnalysis"
      /\ LET a    == lastOp.analysis
             errs == IF includes(a.fullResponse, <<"ERRORS: ", "None">>)
                     THEN <<>> ELSE <<(<<"Build failed">>)>>
         IN  /\ a.summary = <<"Build failed">>
             /\ a.application = <<"Xcode">>
             /\ a.actions = <<(<<"Clean build folder">>)>>
             /\ a.errors = errs
             /\ a.shortcuts = <<(<<"Cmd+Shift+K">>)>>
             /\ runs[r].instantError = Len(errs)


\* the line parser applied to the buffer of the whole response gives the fields
C21_ParsedDirectly ==
  /\ lastOp.op = "finalizeAnalysis"
  /\ lastOp.analysis.fullResponse = GrammarResponse("Build failed")
  /\ lastOp.analysis.summary = <<"Build failed">>
  /\ lastOp.analysis.application = <<"Xcode">>
  /\ lastOp.analysis.actions = <<(<<"Clean build folder">>)>>
  /\ lastOp.analysis.errors = <<(<<"Build failed">>)>>
  /\ lastOp.analysis.shortcuts = <<(<<"Cmd+Shift+K">>)>>

-----------------------------------------------------------------------------
(* SpecFinalize: finalizeAnalysis() is public; callers invoke it on the     *)
(* handler at any time, while Date.now() advances                           *)

FinalizeStreams ==
  Streams \cup {<<GrammarResponse("Build failed")>>, <<GrammarResponse("None")>>}

\* a finalizeAnalysis that empties the buffer once it has parsed it
FinalizeCallClearing ==
  /\ lastOp' = [op |-> "finalizeAnalysis", run |-> 0, events |-> {"complete"},
                analysis |-> finalizeAnalysis(streamBuffer, startTime, now)]
  /\ streamBuffer' = <<>>
  /\ UNCHANGED <<privacyManager, guidanceSystem, engine, snapshot, cache, perceptualIndex, stats, now, ops, budgetVars, pipeVars,
                 actionDetected, errorDetected, startTime, runs>>

\* a call of the public method from outside processStream
FinalizeCall ==
  /\ lastOp' = [op |-> "finalizeAnalysis", run |-> 0, events |-> {"complete"},
                analysis |-> finalizeAnalysis(streamBuffer, startTime, now)]
  /\ UNCHANGED <<privacyManager, guidanceSystem, engine, snapshot, cache, perceptualIndex, stats, now, ops, budgetVars, pipeVars,
                 streamVars>>

\* Date.now() moves on
StreamClock(t) ==
  /\ t > now
  /\ now' = t
  /\ UNCHANGED <<privacyManager, guidanceSystem, engine, snapshot, cache, perceptualIndex, stats, ops, lastOp, budgetVars, pipeVars,
                 streamVars>>

NextFinalize ==
  \/ \E stream \in FinalizeStreams : ProcessStream(1, stream)
  \/ Chunk(1)
  \/ FinalizeAnalysis(1)
  \/ FinalizeCall
  \/ \E t \in ClockValues : StreamClock(t)

SpecFinalize == InitStream /\ [][NextFinalize]_vars

C22_Step ==
  (lastOp.op = "finalizeAnalysis" /\ lastOp'.op = "finalizeAnalysis") =>
    /\ lastOp'.analysis = lastOp.analysis
    /\ UNCHANGED <<streamBuffer, actionDetected, errorDetected>>

\* C22 as stated: a finalizeAnalysis() call that follows another one on the
\* same buffer returns the identical Analysis and leaves the buffer and the
\* detection flags as they were.
C22_FinalizeIdempotent == [][C22_Step]_vars

C22_StepButTime ==
  (lastOp.op = "finalizeAnalysis" /\ lastOp'.op = "finalizeAnalysis") =>
    /\ [lastOp'.analysis EXCEPT !.processingTime = 0]
         = [lastOp.analysis EXCEPT !.processingTime = 0]
    /\ UNCHANGED <<streamBuffer, actionDetected, errorDetected>>

\* C22: a finalizeAnalysis() call that follows another one on the same buffer
\* returns an Analysis that differs from the earlier one at most in
\* processingTime, and leaves the buffer and the detection flags as they were.
C22_IdempotentButTime == [][C22_StepButTime]_vars

C22_Witness ==
  /\ lastOp.op = "finalizeAnalysis"
  /\ lastOp.run = 0
  /\ runs[1].pc = "complete"
  /\ lastOp.analysis.processingTime > 0


-----------------------------------------------------------------------------
(* The order of cache and budget in processFrame (SpecPipeline) *)

\* the cache serves a frame of this content
C23_Served(b) ==
  /\ config.enableCaching
  /\ get(cache, perceptualIndex, stats, b, PerceptualOf(b), now).ret # Null

C23_Step ==
  \A f \in 1..MaxFrames :
    (frames[f].pc = "none" /\ frames'[f].pc # "none" /\ \A b \in Buffers : C23_Served(b))
      => /\ frames'[f].pc = "predicting"
         /\ emitted'.skipped = emitted.skipped

\* C23: a frame whose content the cache serves takes the cache-hit path to an
\* insight, whatever its priority and the remaining budget: it is not skipped
\* by shouldProcess.
C23_CacheBeforeBudget == [][C23_Step]_vars


C24_Step == capturing' > capturing => integrationRunning'

\* C24: a capture begins only while the pipeline is started: once stop() has
\* been called, no captureLoop call begins a capture until start() is called
\* again.
C24_NoCaptureAfterStop == [][C24_Step]_vars

-----------------------------------------------------------------------------
(* SpecRate: the pipeline across a budget-critical day and the midnight     *)
(* after it.  The CostOptimizer is constructed on a day of which the store  *)
(* already holds a record, as after a restart of the application.           *)

RateConfigs ==
  {[dailyBudget |-> 10, costPerAnalysis |-> 1, enableCaching |-> TRUE,
    adaptiveQuality |-> TRUE]}

\* the record of today that an earlier run of the application persisted
PersistedUsage ==
  [FreshUsage(0) EXCEPT !.totalCost = 9, !.analysisCount = 9,
                        !.priorityBreakdown.high = 9]

InitRate ==
  /\ InitCacheVars /\ InitPipeVars /\ InitStreamVars /\ InitEngine /\ InitPrivacyVars
  /\ config \in RateConfigs
  /\ today = 0
  /\ usageHistory \in {<<>>, <<PersistedUsage>>}
  /\ currentUsage = loadTodayUsage(usageHistory, 0)
  /\ resetTimers = 1
  /\ midnights = 0

NextRate ==
  \/ NextPipeline
  \/ \E d \in 0..MaxMidnights, o \in ResetOutcomes : ResetFires(d, o)

SpecRate == InitRate /\ [][NextRate]_vars

\* a recordAnalysis of this step raised 'budgetCritical'
C25_CriticalRaised ==
  /\ currentUsage' # currentUsage
  /\ currentUsage'.date = currentUsage.date
  /\ "budgetCritical" \in checkBudgetAlerts(currentUsage', config)

\* the alert sets the rate to 1, and on that day a rate of 1 is kept once at
\* most 10% of the budget remains
C25_CriticalStep ==
  /\ C25_CriticalRaised => captureRate' = 1
  /\ (/\ captureRate = 1
      /\ PercentageAtMost(currentUsage, config, 10)
      /\ currentUsage'.date = currentUsage.date) => captureRate' = 1

\* a reset that ends a day on which the alert was raised and starts a new day
\* brings back the rate of that day's budget
C25_ResetStep ==
  (/\ midnights' = midnights + 1
   /\ currentUsage'.date # currentUsage.date
   /\ currentUsage.analysisCount >= 10
   /\ PercentageAtMost(currentUsage, config, 10)) =>
    captureRate' = getAdaptiveQualitySettings(currentUsage', config).captureRate

C25_Step == C25_CriticalStep /\ C25_ResetStep

\* C25: after 'budgetCritical' the capture rate is 1 FPS and stays 1 for the
\* rest of the day; after the next daily reset it is again the configured or
\* adaptive rate.
C25_RateFollowsBudget == [][C25_Step]_vars

\* the first half of C25 alone
C25_RateStaysAtOne == [][C25_CriticalStep]_vars

\* the alert has been raised and the rate is 1
C25_Reduced ==
  /\ captureRate = 1
  /\ currentUsage.analysisCount = 10
  /\ PercentageAtMost(currentUsage, config, 10)

-----------------------------------------------------------------------------
\* the model call of frame f has failed in this step
C26_Failed(f) == frames[f].pc = "calling" /\ frames'[f].pc = "done"

C26_Step ==
  /\ \A f \in 1..MaxFrames :
       /\ C26_Failed(f) =>
            /\ emitted'.error = emitted.error + 1
            /\ cache' = cache /\ perceptualIndex' = perceptualIndex
            /\ emitted'.cached = emitted.cached
            /\ currentUsage' = currentUsage /\ usageHistory' = usageHistory
            /\ \A g \in 1..MaxFrames : g # f => frames'[g] = frames[g]
            /\ UNCHANGED <<integrationRunning, shooterVars>>
       /\ frames'[f].pc = "calling" => frames[f].pc \in {"none", "calling"}
       /\ frames[f].pc = "done" => frames'[f].pc = "done"
  /\ emitted'.error # emitted.error => \E f \in 1..MaxFrames : C26_Failed(f)

-----------------------------------------------------------------------------
(* SpecCapture: the pipeline with the event loop's progress: a pending      *)
(* start completes, a pending timer fires, a capture in flight ends         *)

CaptureEnds ==
  \/ CaptureNothing
  \/ CaptureThrows
  \/ \E f \in 1..MaxFrames, b \in Buffers, fc \in FrameContents :
       FrameEvent(f, b, fc[1], fc[2])

SpecCapture ==
  /\ InitPipeline
  /\ [][NextPipeline]_vars
  /\ WF_vars(StartCompletes)
  /\ WF_vars(\E tracked \in BOOLEAN : CaptureTick(tracked))
  /\ WF_vars(CaptureEnds)

\* the screenshooter runs and no capture is in flight
C27_Idle == isRunning /\ capturing = 0

\* C27: a capture that yields no frame, by returning null or by throwing, is
\* followed by the next tick: a running screenshooter that has no capture in
\* flight attempts one later, unless it is stopped before.
C27_CaptureRetried == C27_Idle ~> (capturing > 0 \/ ~isRunning)

\* the safety half: a capture that ends without a frame schedules the next tick
C27_Step ==
  (capturing' = capturing - 1 /\ frames' = frames) => timers' = timers + 1

C27_NextTickScheduled == [][C27_Step]_vars

-----------------------------------------------------------------------------
C28_Step ==
  (ops' = ops + 1 /\ lastOp'.op = "import" /\ lastOp'.kind # "ok") =>
    cache' = <<>> /\ perceptualIndex' = <<>>

\* C28: import() of malformed snapshot data returns without throwing and
\* leaves the cache empty: no entries in the primary map, no buckets in the
\* fingerprint index.
C28_MalformedImportEmpties == [][C28_Step]_vars

-----------------------------------------------------------------------------
(* SpecRestore: the cache persisted with export() and restored with         *)
(* import() of that text, at once or after the clock has moved on           *)

Export ==
  /\ snapshot' = export(cache, perceptualIndex, stats)
  /\ lastOp' = [op |-> "export"]
  /\ UNCHANGED <<privacyManager, guidanceSystem, engine, streamVars, cache, perceptualIndex, stats, now, ops, budgetVars, pipeVars>>

ImportExported ==
  /\ snapshot # Null
  /\ LET r == import(cache, perceptualIndex, stats, parseExported(snapshot), now)
     IN  /\ cache' = r.cache
         /\ perceptualIndex' = r.index
         /\ stats' = r.stats
  /\ lastOp' = [op |-> "importExported"]
  /\ UNCHANGED <<privacyManager, guidanceSystem, engine, snapshot, streamVars, now, ops, budgetVars, pipeVars>>

\* two buffers with the same fingerprint, and the first of them also stored
\* under a second one
RestoreStores == {<<1, FpA, "a1">>, <<1, FpB, "a1">>, <<2, FpA, "a1">>}

NextRestore ==
  \/ \E x \in RestoreStores : Store(x[1], x[2], x[3])
  \/ \E h \in {1, 2} : Lookup(h, FpA)
  \/ \E t \in ClockValues : AdvanceClock(t)
  \/ Export
  \/ ImportExported

SpecRestore == InitCache /\ [][NextRestore]_vars

\* the entries of the exported text, in its order
C29_Exported == [i \in 1..Len(snapshot.cache) |-> snapshot.cache[i][2]]

C29_Fresh(e) == now - e.timestamp <= TTL_MS

\* the exported bucket of a fingerprint
C29_ExportedBucket(fp) ==
  IF \E i \in 1..Len(snapshot.perceptualIndex) : snapshot.perceptualIndex[i][1] = fp
  THEN snapshot.perceptualIndex[CHOOSE i \in 1..Len(snapshot.perceptualIndex) :
                                  snapshot.perceptualIndex[i][1] = fp][2]
  ELSE <<>>

C29_Step ==
  (lastOp'.op = "importExported" /\ snapshot # Null) =>
    /\ cache' = SelectSeq(C29_Exported, C29_Fresh)
    /\ \A i \in 1..Len(cache') : ~Expired(cache'[i], now)
    /\ \A i \in 1..Len(cache') :
         LET e == cache'[i]
         IN  /\ \E j \in 1..Len(IndexGet(perceptualIndex', e.perceptualHash)) :
                  IndexGet(perceptualIndex', e.perceptualHash)[j] = e.hash
             /\ SelectSeq(IndexGet(perceptualIndex', e.perceptualHash),
                          LAMBDA h : CacheHas(cache', h))
                  = SelectSeq(C29_ExportedBucket(e.perceptualHash),
                              LAMBDA h : CacheHas(cache', h))

\* C29: import(export()) restores the cache: it holds exactly the exported
\* entries that are not older than TTL at import time, each with the analysis,
\* cost and access metadata it was exported with and listed in the bucket of
\* its fingerprint as exported, and no entry older than TTL remains.
C29_ExportImportRestores == [][C29_Step]_vars

\* an import of an exported text that dropped one entry and restored the other
C29_Witness ==
  /\ lastOp.op = "importExported"
  /\ Len(snapshot.cache) = 2
  /\ Len(cache) = 1
  /\ cache[1].timestamp > 0

-----------------------------------------------------------------------------
(* SpecGuidance: the guidance engine fed with insights as the clock advances *)

\* confidence is in tenths: 0.9 is what RealTimeGuidanceSystem gives the
\* analyses of the enhanced pipeline
GuidanceInsights ==
  {[summary |-> v[1], application |-> "Xcode", suggestions |-> v[2],
    shortcuts |-> v[3], errors |-> e, confidence |-> v[4]] :
     v \in {<<<<"Editor">>, <<>>, <<>>, 9>>,
            <<<<"Save", "dialog">>, <<<<"Open", "menu">>>>, <<>>, 9>>,
            <<<<"Editor">>, <<<<"Open", "menu">>>>, <<"Cmd+S">>, 9>>,
            <<<<"Editor">>, <<<<"Press", "Cmd+S">>>>, <<"Cmd+S">>, 9>>,
            <<<<"Editor">>, <<<<"Open", "menu">>, <<"Press", "Cmd+S">>,
                             <<"Open", "menu">>>>, <<>>, 5>>},
     e \in {<<>>, <<"Build failed">>}}

Process(insight) ==
  /\ ops < MaxOps
  /\ LET r == process(engine, insight, now)
     IN  /\ engine' = r.engine
         /\ lastOp' = [op |-> "process", insight |-> insight, guidance |-> r.guidance]
  /\ ops' = ops + 1
  /\ UNCHANGED <<privacyManager, guidanceSystem, snapshot, streamVars, cache, perceptualIndex, stats, now,
                 budgetVars, pipeVars>>

NextGuidance ==
  \/ \E insight \in GuidanceInsights : Process(insight)
  \/ \E t \in ClockValues : AdvanceClock(t)

SpecGuidance == InitCache /\ [][NextGuidance]_vars

\* C30: an analysis with a non-empty errors list yields Guidance of priority
\* 'high' and category 'error-help', whatever the stuck, repetitive,
\* inefficiency, critical-keyword and history signals are.
C30_ErrorsGetErrorHelp ==
  (lastOp.op = "process" /\ Len(lastOp.insight.errors) > 0) =>
    /\ lastOp.guidance.priority = "high"
    /\ lastOp.guidance.category = "error-help"

\* an analysis with errors met a stuck, repetitive user on a critical screen
C30_Witness ==
  /\ lastOp.op = "process"
  /\ Len(lastOp.insight.errors) > 0
  /\ lastOp.guidance.context.isStuck
  /\ lastOp.guidance.context.isRepetitive
  /\ detectCriticalWorkflow(lastOp.insight)

-----------------------------------------------------------------------------
\* process(insight) has run in this step
C31_Processed == ops' = ops + 1 /\ lastOp'.op = "process"

C31_High ==
  \/ Len(lastOp'.insight.errors) > 0
  \/ now - engine.lastActionTime > STUCK_THRESHOLD_MS
  \/ detectCriticalWorkflow(lastOp'.insight)

C31_Medium ==
  \/ lastOp'.guidance.context.isRepetitive
  \/ detectInefficiency(engine, lastOp'.insight, now)

C31_Unused == hasUnusedFeatures(engine, lastOp'.insight)

C31_StepAsStated ==
  C31_Processed =>
    lastOp'.guidance.priority =
      IF C31_High THEN "high" ELSE IF C31_Medium THEN "medium" ELSE "low"

\* C31 as stated: priority is 'high' iff errors are present, the user is stuck
\* beyond the threshold or the summary has a critical keyword; otherwise
\* 'medium' iff suggestions are repetitive or the user is inefficient;
\* otherwise 'low'.
C31_PriorityAsStated == [][C31_StepAsStated]_vars

C31_Step ==
  C31_Processed =>
    lastOp'.guidance.priority =
      IF C31_High THEN "high"
      ELSE IF C31_Medium \/ C31_Unused THEN "medium" ELSE "low"

\* C31: priority is 'high' iff errors are present, the user is stuck beyond the
\* threshold or the summary has a critical keyword; otherwise 'medium' iff
\* suggestions are repetitive, the user is inefficient, or the analysis offers
\* shortcuts while no suggestion in the history names Cmd or Ctrl; otherwise
\* 'low'.
C31_PriorityFromSignals == [][C31_Step]_vars

\* a second insight got 'medium' for inefficiency alone: it is not repetitive
\* and offers no shortcuts
C31_Witness ==
  /\ lastOp.op = "process"
  /\ lastOp.guidance.priority = "medium"
  /\ ~lastOp.guidance.context.isRepetitive
  /\ Len(lastOp.insight.shortcuts) = 0
  /\ Len(engine.contextHistory) = 2

-----------------------------------------------------------------------------
\* C32: every Guidance of process() carries at most 3 suggestions, in order of
\* non-increasing confidence, no two of them with the same text.
C32_RankedDistinctTopThree ==
  lastOp.op = "process" =>
    LET sg == lastOp.guidance.suggestions
    IN  /\ Len(sg) <= 3
        /\ \A i \in 1..Len(sg) : \A j \in (i + 1)..Len(sg) :
             /\ sg[i].confidence >= sg[j].confidence
             /\ sg[i].text # sg[j].text

\* the first two parts of C32: at most 3, by falling confidence
C32_RankedTopThree ==
  lastOp.op = "process" =>
    LET sg == lastOp.guidance.suggestions
    IN  /\ Len(sg) <= 3
        /\ \A i \in 1..Len(sg) : \A j \in (i + 1)..Len(sg) :
             sg[i].confidence >= sg[j].confidence

-----------------------------------------------------------------------------
(* SpecPriority: determinePriority applied to frames *)

\* the regions of a frame, by falling priority as detectActiveRegions sorts
\* them: at most one cursor region, whose priority is the 5 or the 8 the
\* screenshooters give it, or a higher one
FrameRegions ==
  {SelectSeq(<<[type |-> "active_window", priority |-> 10],
               [type |-> "cursor_region", priority |-> c],
               [type |-> "full_screen", priority |-> 1]>>,
             LAMBDA r : \/ r.type = "active_window" /\ w
                        \/ r.type = "cursor_region" /\ c > 0
                        \/ r.type = "full_screen" /\ f) :
     w \in BOOLEAN, c \in {0, 5, 8, 9}, f \in BOOLEAN}

PriorityFrames ==
  {[changePercent |-> p, regions |-> r] :
     p \in {0, 5, 6, 20, 21, 50, 100}, r \in FrameRegions}

\* frame.regions.find(r => r.type === 'cursor_region'): the first one, or none
findCursorRegion(regions) ==
  IF \E i \in 1..Len(regions) : regions[i].type = "cursor_region"
  THEN regions[CHOOSE i \in 1..Len(regions) :
                 /\ regions[i].type = "cursor_region"
                 /\ \A j \in 1..(i - 1) : regions[j].type # "cursor_region"]
  ELSE Null

\* determinePriority(frame); no cursor region passes as priority 0
framePriority(frame) ==
  LET primaryRegion == findCursorRegion(frame.regions)
  IN  determinePriority(frame.changePercent,
                        IF primaryRegion = Null THEN 0 ELSE primaryRegion.priority)

DeterminePriority(frame) ==
  /\ lastOp' = [op |-> "determinePriority", frame |-> frame, ret |-> framePriority(frame)]
  /\ UNCHANGED <<privacyManager, guidanceSystem, engine, snapshot, streamVars, cache, perceptualIndex, stats, now, ops, budgetVars, pipeVars>>

NextPriority == \E frame \in PriorityFrames : DeterminePriority(frame)

SpecPriority == InitPipeline /\ [][NextPriority]_vars

C33_ElevatedCursor(frame) ==
  \E i \in 1..Len(frame.regions) :
    frame.regions[i].type = "cursor_region" /\ frame.regions[i].priority > 8

\* C33: the priority of a frame is 'high' when its change-percent is above 20
\* or it has a cursor region of elevated priority, otherwise 'medium' when its
\* change-percent is above 5, otherwise 'low'.
C33_PriorityOfFrame ==
  lastOp.op = "determinePriority" =>
    lastOp.ret = IF lastOp.frame.changePercent > 20 \/ C33_ElevatedCursor(lastOp.frame)
                 THEN "high"
                 ELSE IF lastOp.frame.changePercent > 5 THEN "medium" ELSE "low"

\* a frame that changed little is 'high' for its cursor region
C33_Witness ==
  /\ lastOp.op = "determinePriority"
  /\ lastOp.frame.changePercent <= 5
  /\ lastOp.ret = "high"

-----------------------------------------------------------------------------
(* C34: what set() evicts from a full cache *)

C34_SomeExpired == \E i \in 1..Len(cache) : Expired(cache[i], now)

C34_Step ==
  (Ran("set") /\ Len(cache) = MAX_CACHE_SIZE)
  => /\ Len(lastOp'.evicted) = 1
     /\ LET k == lastOp'.evicted[1]
            h == lastOp'.hash
        IN  /\ CacheHas(cache, k)
            /\ C34_SomeExpired => Expired(CacheGet(cache, k), now)
            /\ ~C34_SomeExpired
                 => \A i \in 1..Len(cache) :
                      CacheGet(cache, k).lastAccessed <= cache[i].lastAccessed
            /\ CacheKeys(cache') = (CacheKeys(cache) \ {k}) \cup {h}
            /\ \A i \in 1..Len(cache) :
                 cache[i].hash \notin {k, h} => CacheGet(cache', cache[i].hash) = cache[i]

\* C34: a set() on a cache holding MAX_CACHE_SIZE entries removes exactly one
\* entry: an expired one when at least one entry is expired, the one with the
\* oldest lastAccessed only when none is; every other entry stays as it was.
C34_EvictsExpiredFirst == [][C34_Step]_vars

\* a set() has just evicted the expired entry of a full cache that also held
\* an entry that was not expired, which it kept
C34_Witness ==
  /\ lastOp.op = "set"
  /\ Len(lastOp.evicted) = 1
  /\ lastOp.evicted[1] \in lastOp.expired
  /\ ~CacheHas(cache, lastOp.evicted[1])
  /\ Len(cache) = MAX_CACHE_SIZE
  /\ \E i \in 1..Len(cache) :
       /\ cache[i].hash # lastOp.hash
       /\ cache[i].hash \notin lastOp.expired
       /\ ~Expired(cache[i], now)

-----------------------------------------------------------------------------
(* C35: one capture loop per screenshooter *)

\* C35: a running screenshooter has at most one capture tick that is either
\* executing or waiting on its timer.
C35_OneCaptureLoop == isRunning => capturing + timers <= 1

-----------------------------------------------------------------------------
(* C36: the runs of processStream on the one handler of an integration *)

C36_Step ==
  \A r \in Runs :
    (runs[r].pc = "reading" /\ runs'[r].pc = "complete")
    => lastOp'.analysis.fullResponse = runs[r].received

\* C36: the analysis a processStream run returns is built from the tokens of
\* that run's own stream, and from nothing else, also when runs overlap.
C36_OwnTokensOnly == [][C36_Step]_vars

-----------------------------------------------------------------------------
(* C37: the budget thresholds at the moment a cost is recorded *)

\* recordAnalysis(priority, false) ran in this step
C37_CostRecorded(priority) ==
  /\ currentUsage'.totalCost > currentUsage.totalCost
  /\ currentUsage'.priorityBreakdown[priority] > currentUsage.priorityBreakdown[priority]

C37_Step ==
  /\ C37_CostRecorded("medium") => PercentageAtLeast(currentUsage, config, THRESHOLD_MEDIUM)
  /\ C37_CostRecorded("low") => PercentageAtLeast(currentUsage, config, THRESHOLD_LOW)

\* C37: whenever the cost of a 'medium' analysis is recorded, the remaining
\* budget just before the recording is at least 50% of the daily budget, and
\* at least 80% whenever the cost of a 'low' analysis is recorded.
C37_GatedWhenSpent == [][C37_Step]_vars

-----------------------------------------------------------------------------
(* SpecUsage: the usage record of a cost optimizer over its life: loaded   *)
(* from the store at construction, counted by recordAnalysis, consulted by *)
(* shouldProcess, reloaded at every midnight                               *)

\* the record of today that an earlier run with the same configuration saved
SavedUsage(cfg) ==
  [FreshUsage(0) EXCEPT !.totalCost = cfg.costPerAnalysis, !.analysisCount = 1,
                        !.priorityBreakdown.medium = 1]

InitUsage ==
  /\ InitCacheVars /\ InitPipeVars /\ InitStreamVars /\ InitEngine /\ InitPrivacyVars
  /\ config \in BudgetConfigs
  /\ today = 0
  /\ usageHistory \in {<<>>, <<SavedUsage(config)>>}
  /\ currentUsage = loadTodayUsage(usageHistory, 0)
  /\ resetTimers = 1
  /\ midnights = 0

\* the analyses recorded in the stored history, over all its days
RECURSIVE Recorded(_)
Recorded(hist) ==
  IF hist = <<>> THEN 0
  ELSE Head(hist).analysisCount + Head(hist).cachedCount + Recorded(Tail(hist))

UsageRecord(priority, cached) ==
  /\ Recorded(usageHistory) <= MaxResetRecords
  /\ RecordAnalysis(priority, cached)

NextUsage ==
  \/ \E p \in Priorities : ShouldProcess(p)
  \/ \E p \in Priorities, c \in BOOLEAN : UsageRecord(p, c)
  \/ \E d \in 0..MaxMidnights, o \in ResetOutcomes : ResetFires(d, o)

SpecUsage == InitUsage /\ [][NextUsage]_vars

C38_Consistent(u) ==
  /\ u.totalCost = u.analysisCount * config.costPerAnalysis
  /\ u.priorityBreakdown.high + u.priorityBreakdown.medium + u.priorityBreakdown.low
       = u.analysisCount + u.cachedCount

C38_Step == lastOp'.op = "shouldProcess" => currentUsage' = currentUsage

-----------------------------------------------------------------------------
(* SpecPrivacy: RealTimeGuidanceSystem with its PrivacyManager and its      *)
(* capture pipeline (autoCapture, an EnhancedAutoScreenshotIntegration).    *)
(* start() is suspended while the consent dialog is open and while          *)
(* autoCapture.start() awaits the screenshooter; one start() runs at a time *)

IDLE == "idle"
PENDING_CONSENT == "pending-consent"
CONSENT_GRANTED == "consent-granted"
ACTIVE_CAPTURE == "active-capture"
PAUSED == "paused"

\* what the privacy manager and the listeners of its events act on
World ==
  [state |-> privacyManager.state, consentHistory |-> privacyManager.consentHistory,
   running |-> integrationRunning, sh |-> Shooter]

\* EnhancedAutoScreenshotIntegration.start() up to its await of screenshooter.start()
autoCaptureStart(w) ==
  IF w.running THEN w
  ELSE [w EXCEPT !.running = TRUE,
                 !.sh = start(updateCaptureRate(w.sh,
                          getAdaptiveQualitySettings(currentUsage, config).captureRate))]

\* EnhancedAutoScreenshotIntegration.stop()
autoCaptureStop(w) ==
  IF ~w.running THEN w ELSE [w EXCEPT !.running = FALSE, !.sh = stop(w.sh)]

\* setState(newState): the assignment, then the 'state-changed' listener of
\* the guidance system
setState(w, newState, isActive) ==
  LET w1 == [w EXCEPT !.state = newState]
  IN  IF newState = PAUSED THEN autoCaptureStop(w1)
      ELSE IF newState = ACTIVE_CAPTURE /\ isActive THEN autoCaptureStart(w1)
           ELSE w1

\* needsReConsent() with requireReConsent set: true without a stored consent;
\* the stored consents are younger than reconsentInterval
needsReConsent(w) == w.consentHistory = 0

startCapture(w, isActive) ==
  IF w.state \in {CONSENT_GRANTED, PAUSED} THEN setState(w, ACTIVE_CAPTURE, isActive) ELSE w

pauseRecording(w, isActive) ==
  IF w.state = ACTIVE_CAPTURE THEN setState(w, PAUSED, isActive) ELSE w

resumeRecording(w, isActive) ==
  IF w.state = PAUSED THEN setState(w, ACTIVE_CAPTURE, isActive) ELSE w

stopRecording(w, isActive) ==
  IF w.state \in {ACTIVE_CAPTURE, PAUSED} THEN setState(w, IDLE, isActive) ELSE w

SetWorld(w) ==
  /\ Loops(w.sh) <= MaxLoops
  /\ privacyManager' = [state |-> w.state, consentHistory |-> w.consentHistory]
  /\ integrationRunning' = w.running
  /\ SetShooter(w.sh)

\* RealTimeGuidanceSystem.start(), lines 659-662: startCapture(), then
\* autoCapture.start() up to its await
startAfterConsent(w, isActive) == autoCaptureStart(startCapture(w, isActive))

\* RealTimeGuidanceSystem.start() with the screen recording permission
\* granted: up to the consent dialog when requestConsent() asks for consent,
\* else up to the await of autoCapture.start()
GuidanceStart ==
  /\ ~guidanceSystem.isActive
  /\ guidanceSystem.pc = "idle"
  /\ IF needsReConsent(World)
     THEN /\ SetWorld(setState(World, PENDING_CONSENT, guidanceSystem.isActive))
          /\ guidanceSystem' = [guidanceSystem EXCEPT !.pc = "consent"]
     ELSE /\ SetWorld(startAfterConsent(World, guidanceSystem.isActive))
          /\ guidanceSystem' = [guidanceSystem EXCEPT !.pc = "starting"]
  /\ UNCHANGED <<engine, snapshot, streamVars, cacheVars, budgetVars, frames, emitted>>

\* 'consent-response' reaches the listener requestConsent() registered, and
\* start() goes on from its await
ConsentResponse(granted) ==
  /\ guidanceSystem.pc = "consent"
  /\ IF granted
     THEN /\ SetWorld(startAfterConsent(
                        setState([World EXCEPT !.consentHistory = @ + 1],
                                 CONSENT_GRANTED, guidanceSystem.isActive),
                        guidanceSystem.isActive))
          /\ guidanceSystem' = [guidanceSystem EXCEPT !.pc = "starting"]
     ELSE /\ SetWorld(setState(World, IDLE, guidanceSystem.isActive))
          /\ guidanceSystem' = [guidanceSystem EXCEPT !.pc = "idle"]
  /\ UNCHANGED <<engine, snapshot, streamVars, cacheVars, budgetVars, frames, emitted>>

\* start() after autoCapture.start() has resolved
GuidanceStartCompletes ==
  /\ guidanceSystem.pc = "starting"
  /\ starting = 0
  /\ guidanceSystem' = [isActive |-> TRUE, pc |-> "idle"]
  /\ UNCHANGED <<privacyManager, engine, snapshot, streamVars, cacheVars, budgetVars,
                 pipeVars>>

\* RealTimeGuidanceSystem.stop()
GuidanceStop ==
  /\ guidanceSystem.isActive
  /\ SetWorld(stopRecording(autoCaptureStop(World), guidanceSystem.isActive))
  /\ guidanceSystem' = [guidanceSystem EXCEPT !.isActive = FALSE]
  /\ UNCHANGED <<engine, snapshot, streamVars, cacheVars, budgetVars, frames, emitted>>

\* 'Pause Recording' of the tray menu, pauseCapture(), a sensitive context
PauseRecording ==
  /\ privacyManager.state = ACTIVE_CAPTURE
  /\ SetWorld(pauseRecording(World, guidanceSystem.isActive))
  /\ UNCHANGED <<guidanceSystem, engine, snapshot, streamVars, cacheVars, budgetVars,
                 frames, emitted>>

\* 'Resume Recording' of the tray menu, resumeCapture()
ResumeRecording ==
  /\ privacyManager.state = PAUSED
  /\ SetWorld(resumeRecording(World, guidanceSystem.isActive))
  /\ UNCHANGED <<guidanceSystem, engine, snapshot, streamVars, cacheVars, budgetVars,
                 frames, emitted>>

\* 'Stop Recording' of the tray menu
StopRecording ==
  /\ privacyManager.state \in {ACTIVE_CAPTURE, PAUSED}
  /\ SetWorld(stopRecording(World, guidanceSystem.isActive))
  /\ UNCHANGED <<guidanceSystem, engine, snapshot, streamVars, cacheVars, budgetVars,
                 frames, emitted>>

\* the store of a first run, or one holding the consent of an earlier run
InitPrivacy ==
  /\ InitCacheVars /\ InitPipeVars /\ InitStreamVars /\ InitEngine
  /\ config \in RateConfigs
  /\ today = 0
  /\ usageHistory = <<>>
  /\ currentUsage = FreshUsage(0)
  /\ resetTimers = 1
  /\ midnights = 0
  /\ privacyManager \in {NewPrivacyManager(0), NewPrivacyManager(1)}
  /\ guidanceSystem = NewGuidanceSystem

NextPrivacy ==
  \/ GuidanceStart
  \/ \E granted \in BOOLEAN : ConsentResponse(granted)
  \/ GuidanceStartCompletes
  \/ GuidanceStop
  \/ PauseRecording
  \/ ResumeRecording
  \/ StopRecording
  \/ StartCompletes
  \/ \E tracked \in BOOLEAN : CaptureTick(tracked)
  \/ CaptureNothing

SpecPrivacy == InitPrivacy /\ [][NextPrivacy]_vars

\* C39: the capture pipeline of the guidance system runs only while the
\* privacy state is ACTIVE_CAPTURE.
C39_CaptureOnlyWhenActive == integrationRunning => privacyManager.state = ACTIVE_CAPTURE
====
